---- MODULE Spec2Model ----
(***************************************************************************)
(* The paper account ledger and order matcher of vnpy_ai_trader            *)
(* (src/gateway/paper_account.py), as a state machine.                     *)
(*                                                                         *)
(* Amounts of money (prices included) are integers that count              *)
(* 1/MoneyScale of a currency unit, MoneyScale = RateDen * RateDen, and a  *)
(* rate is RateNum / RateDen, so that every product "amount * rate" of the *)
(* code is an exact integer here.  The average price of a position is a    *)
(* quotient (total cost / volume); it is kept as an exact fraction         *)
(* [n, d] in lowest terms.  Python floats are therefore read as exact      *)
(* rational numbers.                                                       *)
(***************************************************************************)
EXTENDS Integers, Sequences, FiniteSets, TLC

\* ------------------------------------------------------------------ bounds
\* Orders submitted between two resets (send_order stops being enabled).
MaxOrders == 2
\* The denominator of the three rates of the account's setting.
RateDen == 10
\* setting["手续费率"], setting["印花税率"], setting["滑点"] as numerators.
CommissionNum == 1
StampDutyNum == 2
SlippageNum == 1
\* setting["初始资金"], in currency units.
CapitalUnits == 5000
MaxTime == 8
MaxConditions == 3
MaxPositions == 2

MoneyScale == RateDen * RateDen

\* ------------------------------------------------------------------ inputs
\* Two symbols; the second one takes fewer requests and ticks.
VtSymbols == {"000001.SZSE", "600000.SSE"}
Prices == {10 * MoneyScale, 11 * MoneyScale}
Quotes == {0} \cup Prices

Request(symbol, direction, type, volume, units) ==
    [symbol |-> symbol, direction |-> direction, type |-> type,
     volume |-> volume, price |-> units * MoneyScale]

OrderRequests ==
    { Request("000001.SZSE", "LONG", "LIMIT", 100, 10),
      Request("000001.SZSE", "LONG", "LIMIT", 200, 10),
      Request("000001.SZSE", "LONG", "LIMIT", 100, 11),
      Request("000001.SZSE", "SHORT", "LIMIT", 100, 11),
      Request("000001.SZSE", "SHORT", "LIMIT", 200, 10),
      Request("000001.SZSE", "LONG", "MARKET", 100, 10),
      Request("000001.SZSE", "SHORT", "MARKET", 100, 10),
      Request("000001.SZSE", "LONG", "LIMIT", 50, 10),
      Request("000001.SZSE", "SHORT", "LIMIT", 50, 11),
      Request("000001.SZSE", "LONG", "LIMIT", 150, 11),
      Request("000001.SZSE", "SHORT", "MARKET", 150, 10),
      Request("600000.SSE", "LONG", "LIMIT", 100, 10) }

\* The scenario of scripts/test_paper_trading.py.  Its rates are numerators
\* over GoldenRateDen (0.0003, 0.001, 0.001); its amounts count 1/GoldenScale
\* of a currency unit, which is exact for every amount of the scenario.
GoldenRateDen == 10000
GoldenScale == 2 * GoldenRateDen

\* whole currency units plus frac5 hundred-thousandths of one
Amount(whole, frac5) == whole * GoldenScale + frac5 \div (100000 \div GoldenScale)

GoldenBuy ==
    [symbol |-> "000001.SZSE", direction |-> "LONG", type |-> "LIMIT",
     volume |-> 1000, price |-> Amount(10, 50000)]

GoldenRequests ==
    { GoldenBuy,
      [symbol |-> "000001.SZSE", direction |-> "SHORT", type |-> "LIMIT",
       volume |-> 500, price |-> Amount(11, 0)],
      [symbol |-> "000001.SZSE", direction |-> "LONG", type |-> "LIMIT",
       volume |-> 50, price |-> Amount(10, 0)],
      [symbol |-> "000001.SZSE", direction |-> "LONG", type |-> "LIMIT",
       volume |-> 150, price |-> Amount(10, 0)],
      [symbol |-> "000001.SZSE", direction |-> "LONG", type |-> "LIMIT",
       volume |-> 10000, price |-> Amount(10, 0)] }

GoldenFillTick ==
    [vt_symbol |-> "000001.SZSE", last_price |-> Amount(10, 48000),
     bid_price_1 |-> Amount(10, 49000), ask_price_1 |-> Amount(10, 48000)]

GoldenTickDatas ==
    { [vt_symbol |-> "000001.SZSE", last_price |-> Amount(10, 50000),
       bid_price_1 |-> Amount(10, 49000), ask_price_1 |-> Amount(10, 51000)],
      GoldenFillTick,
      [vt_symbol |-> "000001.SZSE", last_price |-> Amount(11, 0),
       bid_price_1 |-> Amount(11, 0), ask_price_1 |-> Amount(10, 48000)] }

\* The calls that callers make concurrently: two buys that the capital cannot
\* both cover, a small buy, a sell, the cancels, and two ticks of one symbol.
ThreadRequests ==
    { Request("000001.SZSE", "LONG", "LIMIT", 300, 10),
      Request("000001.SZSE", "LONG", "LIMIT", 100, 10),
      Request("000001.SZSE", "SHORT", "LIMIT", 100, 10) }

ThreadTickDatas ==
    { [vt_symbol |-> "000001.SZSE", last_price |-> p, bid_price_1 |-> p,
       ask_price_1 |-> p] : p \in Prices }

ThreadCalls ==
    [op : {"send_order"}, arg : ThreadRequests]
    \cup [op : {"cancel_order"}, arg : 1..MaxOrders]
    \cup [op : {"update_tick"}, arg : ThreadTickDatas]

\* RuleEngine inputs.  Indicator values and numeric comparands count
\* ten-thousandths, the unit of the tolerance of "==" and "!=".
Tolerance == 1
PctDen == 100
Units(x) == x * 10000

\* A comparand of a condition: a number, or a string.
Num(v) == [isstr |-> FALSE, num |-> v, str |-> ""]
Str(t) == [isstr |-> TRUE, num |-> 0, str |-> t]

NumericStrings == [t \in {"30"} |-> Units(30)]

Condition(indicator, operator, value) ==
    [indicator |-> indicator, operator |-> operator, value |-> value]

\* a comparison with a number, one with another indicator, a crossover, a
\* comparand that is no number, an operator that does not exist, and an
\* equality with a number spelled as a string
Conditions ==
    { Condition("rsi", ">", Num(Units(30))),
      Condition("ma", "<", Str("rsi")),
      Condition("rsi", "cross_above", Num(Units(30))),
      Condition("rsi", ">=", Str("n/a")),
      Condition("rsi", "~", Num(Units(30))),
      Condition("ma", "==", Str("30")) }

Rules ==
    {[indicator |-> c.indicator, operator |-> c.operator, value |-> c.value,
      logic |-> l] : c \in Conditions, l \in {"and", "or"}}

RECURSIVE SeqsUpTo(_, _)
SeqsUpTo(S, n) ==
    IF n = 0 THEN {<<>>}
    ELSE LET shorter == SeqsUpTo(S, n - 1)
         IN  shorter \cup {Append(q, x) : q \in shorter, x \in S}

\* the dicts of indicator values: each indicator absent or with a value
IndicatorValues ==
    UNION { {v \in [names -> {Units(20), Units(30), Units(30) + Tolerance, Units(40)}] :
                /\ "rsi" \in names => v["rsi"] \in {Units(20), Units(40)}
                /\ "ma" \in names => v["ma"] \in {Units(30), Units(30) + Tolerance}} :
            names \in SUBSET {"rsi", "ma"} }

\* RiskManager inputs.  The limits of the configuration, the rates in
\* hundredths.
MaxDrawdownPct == 15
DailyLossLimitPct == 5
PositionSizePct == 3

PortfolioValues == {0, 95000, 110000, 120000}
\* the values at the start of a day and in its course
DailyValues == {95000, 120000}

\* volatilities in thousandths; 0 for None
ReferenceVolatility == 20
MinShares == 100
Volatilities == {0, -10, 10, 20, 40}

\* the candidate signals, a row per symbol
SignalFrames ==
    { <<>>, <<"000001.SZSE">>, <<"600000.SSE", "000001.SZSE">>,
      <<"000002.SZSE", "600000.SSE", "000001.SZSE">> }

\* current_positions: symbol to position size; a symbol that was closed
\* stays in the dict with size 0
CurrentPositions ==
    { <<>>,
      [s \in {"000001.SZSE"} |-> 0],
      [s \in {"000001.SZSE"} |-> 100],
      [s \in {"000001.SZSE", "600000.SSE"} |-> 100],
      [s \in {"000001.SZSE", "600000.SSE", "000002.SZSE"} |->
          IF s = "000002.SZSE" THEN 0 ELSE 100] }

\* Python's None in the place of a quote, as a number no quote takes
None == -1

\* The ticks POST /tick builds: the last price is required, each quote is
\* a number or left out (None).
RoutedTickDatas ==
    [vt_symbol : {"000001.SZSE"}, last_price : Prices,
     ask_price_1 : {None} \cup Prices, bid_price_1 : {None} \cup Prices]

TickDatas ==
    [vt_symbol : {"000001.SZSE"}, last_price : Prices,
     ask_price_1 : Quotes, bid_price_1 : Quotes]
    \cup
    [vt_symbol : {"600000.SSE"}, last_price : {10 * MoneyScale},
     ask_price_1 : {0}, bid_price_1 : {0}]

\* ------------------------------------------------------------- arithmetic
Abs(x) == IF x < 0 THEN -x ELSE x

RECURSIVE GCD(_, _)
GCD(a, b) == IF b = 0 THEN a ELSE GCD(b, a % b)

\* The fraction n / d (d > 0) in lowest terms.
Frac(n, d) ==
    LET g == GCD(Abs(n), d)
    IN  [n |-> n \div g, d |-> d \div g]

Zero == [n |-> 0, d |-> 1]

FracAdd(x, y) == Frac(x.n * y.d + y.n * x.d, x.d * y.d)
FracOfInt(i) == [n |-> i, d |-> 1]
FracTimesInt(x, i) == Frac(x.n * i, x.d)

\* ------------------------------------------------------------------ state
VARIABLES
    setting,           \* the setting given to connect: the capital, the three
                       \* rates as numerators and their common denominator
    balance,           \* self.balance
    frozen,            \* self.frozen
    positions,         \* self.positions: vt_symbol -> PaperPosition
    orders,            \* self.orders: order number n ("PAPER_n") -> OrderData
    active_orders,     \* self.active_orders: its keys, in insertion order
    order_count,       \* self.order_count
    trade_count,       \* self.trade_count
    total_commission,  \* self.total_commission
    total_trades,      \* self.total_trades
    ticks,             \* self.ticks: vt_symbol -> last_price of the latest tick
                       \* (the account reads no other field of a stored tick)
    ret,               \* what the last call gave: send_order's order number (0
                       \* is the empty identifier), the status it gave the
                       \* order and its rejection message; update_tick's trades
    order_lock,        \* self.order_lock: the thread holding it, "" when free
    position_lock,     \* self.position_lock: the thread holding it, "" when free
    calls,             \* thread -> the lock operations its running call has
                       \* still to do, <<>> when it runs no call
    running,           \* caller -> the call it runs: the operation, its
                       \* argument, the step it is at and what it returned
    forked,            \* the account as it was when the running calls began
    active,            \* self._active
    execution_loop,    \* where _run_execution_loop is: "check", "push",
                       \* "sleep", or "stopped" once it has returned
    closing,           \* where close is: "" before the call, "join", "returned"
    now,               \* the time, in seconds
    push_by,           \* when the _push_account under way has returned
    wake,              \* when the time.sleep under way ends
    join_by,           \* when the join under way gives up
    published,         \* the number of periodic publications so far
    events,            \* the notifications the last call put on the event
                       \* engine, in the order it put them
    statistics,        \* what the last call returned when it was
                       \* get_statistics, NoStatistics after another call
    config,            \* RuleEngine: the entry rules and the exit rules of
                       \* the strategy configuration
    signal,            \* RuleEngine: the last call of check_entry_signal or
                       \* check_exit_signal, its arguments and what it returned
    peak_portfolio_value,  \* RiskManager.peak_portfolio_value
    daily_start_value,     \* RiskManager.daily_start_value
    current_drawdown,      \* RiskManager.current_drawdown, a fraction
    daily_pnl,             \* RiskManager.daily_pnl
    risk_ret           \* RiskManager: the last call, its arguments and what
                       \* it returned

ledger_vars == <<setting, balance, frozen, positions, orders, active_orders,
                 order_count, trade_count, total_commission, total_trades,
                 ticks, ret>>

lock_vars == <<order_lock, position_lock, calls>>

thread_vars == <<running, forked>>

close_vars == <<active, execution_loop, closing, now, push_by, wake, join_by,
                published>>

notify_vars == <<events>>

statistics_vars == <<statistics>>

rule_vars == <<config, signal>>

risk_vars == <<peak_portfolio_value, daily_start_value, current_drawdown,
               daily_pnl, risk_ret>>

vars == <<ledger_vars, lock_vars, thread_vars, close_vars, notify_vars,
          statistics_vars, rule_vars, risk_vars>>

\* what the steps of one part of the model leave alone
rest_vars == <<statistics_vars, rule_vars, risk_vars>>
beside_ledger == <<lock_vars, thread_vars, close_vars, notify_vars, rest_vars>>
beside_locks == <<ledger_vars, thread_vars, close_vars, notify_vars, rest_vars>>
beside_threads == <<lock_vars, close_vars, notify_vars, rest_vars>>
beside_close == <<ledger_vars, lock_vars, thread_vars, notify_vars, rest_vars>>
beside_notify == <<lock_vars, thread_vars, close_vars, rest_vars>>
beside_statistics == <<lock_vars, thread_vars, close_vars, notify_vars, rule_vars,
                       risk_vars>>
beside_rules == <<ledger_vars, lock_vars, thread_vars, close_vars, notify_vars,
                  statistics_vars, risk_vars>>
beside_risk == <<ledger_vars, lock_vars, thread_vars, close_vars, notify_vars,
                 statistics_vars, rule_vars>>

\* The threads that call the account: the callers of its interface and the
\* thread connect starts on _run_execution_loop.
Callers == {"caller_1", "caller_2"}
ExecutionThread == "_execution_thread"
Threads == Callers \cup {ExecutionThread}

\* connect(setting) with the setting of the bounds above
Setting ==
    [initial_capital |-> CapitalUnits * MoneyScale, rate_den |-> RateDen,
     commission_rate |-> CommissionNum, stamp_duty_rate |-> StampDutyNum,
     slippage |-> SlippageNum]

\* connect(settings) of the test script
GoldenSetting ==
    [initial_capital |-> Amount(100000, 0), rate_den |-> GoldenRateDen,
     commission_rate |-> 3, stamp_duty_rate |-> 10, slippage |-> 10]

initial_capital == setting.initial_capital
commission_rate == setting.commission_rate
stamp_duty_rate == setting.stamp_duty_rate
slippage == setting.slippage

\* amount * rate, the rate being num / rate_den (the quotient and the
\* remainder of amount are multiplied apart to keep the products small)
TimesRate(amount, num) ==
    (amount \div setting.rate_den) * num
    + ((amount % setting.rate_den) * num) \div setting.rate_den

\* The account as one value: the handlers below are functions from the
\* account (and the call's argument) to the account after the call.
Ledger ==
    [balance |-> balance, frozen |-> frozen, positions |-> positions,
     orders |-> orders, active_orders |-> active_orders,
     order_count |-> order_count, trade_count |-> trade_count,
     total_commission |-> total_commission, total_trades |-> total_trades,
     ticks |-> ticks, ret |-> ret]

NoResult == [orderid |-> 0, status |-> "", error_msg |-> "", trades |-> <<>>]

\* a caller that runs no call
NoCall == [op |-> "", pc |-> "", ret |-> NoResult]

\* the account after __init__ and connect(Setting)
NewLedger ==
    [balance |-> Setting.initial_capital, frozen |-> 0, positions |-> <<>>,
     orders |-> <<>>, active_orders |-> <<>>, order_count |-> 0,
     trade_count |-> 0, total_commission |-> 0, total_trades |-> 0,
     ticks |-> <<>>, ret |-> NoResult]

SeqRange(s) == {s[i] : i \in 1..Len(s)}

\* a dict with one key set
Put(f, k, v) == [x \in DOMAIN f \cup {k} |-> IF x = k THEN v ELSE f[x]]

\* a key list without the keys of a set, order kept
RECURSIVE Without(_, _)
Without(s, gone) ==
    IF s = <<>> THEN <<>>
    ELSE IF Head(s) \in gone THEN Without(Tail(s), gone)
    ELSE <<Head(s)>> \o Without(Tail(s), gone)

\* ------------------------------------------------------------ PaperPosition
NewPosition == [volume |-> 0, avg_price |-> Zero, pnl |-> Zero]

\* the sell branch without the clamp at zero
update_trade_unclamped(pos, direction, volume, price) ==
    IF direction = "LONG"
    THEN LET total_cost == FracAdd(FracTimesInt(pos.avg_price, pos.volume),
                                   FracOfInt(price * volume))
             new_volume == pos.volume + volume
         IN  [pos EXCEPT !.volume = new_volume,
                         !.avg_price = IF new_volume > 0
                                       THEN Frac(total_cost.n, total_cost.d * new_volume)
                                       ELSE pos.avg_price]
    ELSE [pos EXCEPT !.volume = pos.volume - volume]

\* the buy branch taking the price of the last fill as the average
update_trade_last_price(pos, direction, volume, price) ==
    IF direction = "LONG"
    THEN [pos EXCEPT !.volume = pos.volume + volume,
                     !.avg_price = FracOfInt(price)]
    ELSE LET new_volume == pos.volume - volume
         IN  IF new_volume <= 0
             THEN [pos EXCEPT !.volume = 0, !.avg_price = Zero]
             ELSE [pos EXCEPT !.volume = new_volume]

update_trade(pos, direction, volume, price) ==
    IF direction = "LONG"
    THEN LET total_cost == FracAdd(FracTimesInt(pos.avg_price, pos.volume),
                                   FracOfInt(price * volume))
             new_volume == pos.volume + volume
         IN  [pos EXCEPT !.volume = new_volume,
                         !.avg_price = IF new_volume > 0
                                       THEN Frac(total_cost.n, total_cost.d * new_volume)
                                       ELSE pos.avg_price]
    ELSE LET new_volume == pos.volume - volume
         IN  IF new_volume <= 0
             THEN [pos EXCEPT !.volume = 0, !.avg_price = Zero]
             ELSE [pos EXCEPT !.volume = new_volume]

calculate_pnl(pos, current_price) ==
    IF pos.volume > 0 /\ pos.avg_price.n > 0
    THEN [pos EXCEPT !.pnl = FracTimesInt(
                FracAdd(FracOfInt(current_price),
                        [n |-> -pos.avg_price.n, d |-> pos.avg_price.d]),
                pos.volume)]
    ELSE [pos EXCEPT !.pnl = Zero]

\* -------------------------------------------------------------- PaperAccount
ReservationNoCommission(price, volume) == price * volume

\* order_value + commission: what a buy of volume at price reserves
Reservation(price, volume) ==
    LET order_value == price * volume
        commission == TimesRate(order_value, commission_rate)
    IN  order_value + commission

LotValidMinimumOnly(volume) ==
    IF volume < 100 THEN "Volume must be at least 100 shares" ELSE ""

LotValid(volume) ==
    IF volume < 100 THEN "Volume must be at least 100 shares"
    ELSE IF volume % 100 # 0 THEN "Volume must be multiple of 100"
    ELSE ""

SufficientFundsOfBalance(L, req) ==
    ~(Reservation(req.price, req.volume) > L.balance)

SufficientFunds(L, req) ==
    LET required == Reservation(req.price, req.volume)
        available == L.balance - L.frozen
    IN  ~(required > available)

SufficientPosition(L, req) ==
    ~(req.symbol \notin DOMAIN L.positions
      \/ L.positions[req.symbol].volume < req.volume)

validate_order(L, req) ==
    IF LotValid(req.volume) # ""
    THEN [is_valid |-> FALSE, error_msg |-> LotValid(req.volume)]
    ELSE IF req.direction = "LONG" /\ ~SufficientFunds(L, req)
    THEN [is_valid |-> FALSE, error_msg |-> "Insufficient funds"]
    ELSE IF req.direction # "LONG" /\ req.direction = "SHORT"
            /\ ~SufficientPosition(L, req)
    THEN [is_valid |-> FALSE, error_msg |-> "Insufficient position"]
    ELSE [is_valid |-> TRUE, error_msg |-> ""]

\* lines 201-208: what an accepted request moves from balance to frozen
total_frozen(req) ==
    IF req.direction = "LONG" THEN Reservation(req.price, req.volume) ELSE 0

\* the rejected order kept in the order map
RejectedStored(L, req, error_msg) ==
    [L EXCEPT !.order_count = L.order_count + 1,
              !.orders = Put(L.orders, L.order_count + 1,
                             [symbol |-> req.symbol, direction |-> req.direction,
                              type |-> req.type, price |-> req.price,
                              volume |-> req.volume, traded |-> 0,
                              status |-> "REJECTED"]),
              !.ret = [orderid |-> 0, status |-> "REJECTED",
                       error_msg |-> error_msg, trades |-> <<>>]]

\* lines 183-189, 195-199: the order is numbered, rejected and pushed
Rejected(L, req, error_msg) ==
    [L EXCEPT !.order_count = L.order_count + 1,
              !.ret = [orderid |-> 0, status |-> "REJECTED",
                       error_msg |-> error_msg, trades |-> <<>>]]

\* lines 183-189, 201-221: the order is numbered, funded, stored and pushed
Accepted(L, req) ==
    LET orderid == L.order_count + 1
        order == [symbol |-> req.symbol, direction |-> req.direction,
                  type |-> req.type, price |-> req.price,
                  volume |-> req.volume, traded |-> 0,
                  status |-> "NOTTRADED"]
    IN  [L EXCEPT !.order_count = orderid,
                  !.frozen = L.frozen + total_frozen(req),
                  !.balance = L.balance - total_frozen(req),
                  !.orders = Put(L.orders, orderid, order),
                  !.active_orders = Append(L.active_orders, orderid),
                  !.ret = [orderid |-> orderid, status |-> "NOTTRADED",
                           error_msg |-> "", trades |-> <<>>]]

send_order(L, req) ==
    LET v == validate_order(L, req)
    IN  IF ~v.is_valid THEN Rejected(L, req, v.error_msg) ELSE Accepted(L, req)

IsActiveOrStored(L, orderid) == orderid \in DOMAIN L.orders

\* line 233: the request names an order cancel_order acts on
IsActive(L, orderid) == orderid \in SeqRange(L.active_orders)

total_unfrozen_of_value(order) ==
    IF order.direction = "LONG"
    THEN order.price * (order.volume - order.traded)
    ELSE 0

\* lines 239-247: what cancelling the order moves from frozen to balance
total_unfrozen(order) ==
    IF order.direction = "LONG"
    THEN Reservation(order.price, order.volume - order.traded)
    ELSE 0

cancel_order(L, orderid) ==
    IF ~IsActive(L, orderid)
    THEN [L EXCEPT !.ret = NoResult]
    ELSE LET order == L.orders[orderid]
         IN  [L EXCEPT !.frozen = L.frozen - total_unfrozen(order),
                       !.balance = L.balance + total_unfrozen(order),
                       !.orders[orderid].status = "CANCELLED",
                       !.active_orders = Without(L.active_orders, {orderid}),
                       !.ret = NoResult]

\* stamp duty charged on buys as on sells
TradeCostStampOnAll(direction, trade_value) ==
    TimesRate(trade_value, commission_rate)
    + TimesRate(trade_value, stamp_duty_rate)

\* lines 395-398: commission, and stamp duty on a sell
TradeCost(direction, trade_value) ==
    LET commission == TimesRate(trade_value, commission_rate)
        stamp_duty == IF direction = "SHORT"
                      THEN TimesRate(trade_value, stamp_duty_rate) ELSE 0
    IN  commission + stamp_duty

SettledBalanceCostFree(bal, order, volume, trade_value, total_cost) ==
    IF order.direction = "LONG"
    THEN (bal + Reservation(order.price, volume)) - trade_value
    ELSE bal + trade_value

\* lines 427-439: the balance after the trade
SettledBalance(bal, order, volume, trade_value, total_cost) ==
    IF order.direction = "LONG"
    THEN (bal + Reservation(order.price, volume)) - (trade_value + total_cost)
    ELSE bal + (trade_value - total_cost)

\* the order value released without the commission reserved with it
SettledFrozenOfValue(frz, order, volume) ==
    IF order.direction = "LONG" THEN frz - order.price * volume ELSE frz

\* lines 427-433: the frozen funds after the trade
SettledFrozen(frz, order, volume) ==
    IF order.direction = "LONG"
    THEN frz - Reservation(order.price, volume)
    ELSE frz

\* lines 442-446
\* an order traded in full left as partly traded
TradedStatusOver(traded, volume) ==
    IF traded > volume THEN "ALLTRADED" ELSE "PARTTRADED"

TradedStatus(traded, volume) ==
    IF traded >= volume THEN "ALLTRADED" ELSE "PARTTRADED"

execute_trade(L, orderid, price) ==
    LET order == L.orders[orderid]
        tradeid == L.trade_count + 1
        volume == order.volume - order.traded
        trade_value == price * volume
        total_cost == TradeCost(order.direction, trade_value)
        trade == [tradeid |-> tradeid, orderid |-> orderid,
                  symbol |-> order.symbol, direction |-> order.direction,
                  price |-> price, volume |-> volume]
        pos == IF order.symbol \in DOMAIN L.positions
               THEN L.positions[order.symbol] ELSE NewPosition
        traded == order.traded + volume
    IN  [L EXCEPT
            !.trade_count = tradeid,
            !.total_commission = L.total_commission + total_cost,
            !.positions = Put(L.positions, order.symbol,
                              update_trade(pos, order.direction, volume, price)),
            !.frozen = SettledFrozen(L.frozen, order, volume),
            !.balance = SettledBalance(L.balance, order, volume, trade_value,
                                       total_cost),
            !.orders[orderid].traded = traded,
            !.orders[orderid].status = TradedStatus(traded, order.volume),
            !.ret.trades = Append(L.ret.trades, trade),
            !.total_trades = L.total_trades + 1]

\* a limit order filled at the tick's quote when the quote is the better price
FillDecisionAtQuote(order, tick) ==
    IF order.type = "MARKET"
    THEN [can_fill |-> TRUE,
          fill_price |->
             IF order.direction = "LONG"
             THEN (IF tick.ask_price_1 > 0 THEN tick.ask_price_1 ELSE tick.last_price)
             ELSE (IF tick.bid_price_1 > 0 THEN tick.bid_price_1 ELSE tick.last_price)]
    ELSE IF order.direction = "LONG"
    THEN IF tick.ask_price_1 > 0 /\ tick.ask_price_1 <= order.price
         THEN [can_fill |-> TRUE, fill_price |-> tick.ask_price_1]
         ELSE IF tick.last_price <= order.price
         THEN [can_fill |-> TRUE, fill_price |-> order.price]
         ELSE [can_fill |-> FALSE, fill_price |-> 0]
    ELSE IF tick.bid_price_1 > 0 /\ tick.bid_price_1 >= order.price
         THEN [can_fill |-> TRUE, fill_price |-> tick.bid_price_1]
         ELSE IF tick.last_price >= order.price
         THEN [can_fill |-> TRUE, fill_price |-> order.price]
         ELSE [can_fill |-> FALSE, fill_price |-> 0]

\* a market order filled at the last price whatever the quotes
FillDecisionMarketAtLast(order, tick) ==
    IF order.type = "MARKET"
    THEN [can_fill |-> TRUE, fill_price |-> tick.last_price]
    ELSE IF order.direction = "LONG"
    THEN IF (tick.ask_price_1 > 0 /\ tick.ask_price_1 <= order.price)
            \/ tick.last_price <= order.price
         THEN [can_fill |-> TRUE, fill_price |-> order.price]
         ELSE [can_fill |-> FALSE, fill_price |-> 0]
    ELSE IF (tick.bid_price_1 > 0 /\ tick.bid_price_1 >= order.price)
            \/ tick.last_price >= order.price
         THEN [can_fill |-> TRUE, fill_price |-> order.price]
         ELSE [can_fill |-> FALSE, fill_price |-> 0]

\* lines 344-371: whether the order fills on the tick, and the price of the
\* fill before slippage
FillDecision(order, tick) ==
    IF order.type = "MARKET"
    THEN [can_fill |-> TRUE,
          fill_price |->
             IF order.direction = "LONG"
             THEN (IF tick.ask_price_1 > 0 THEN tick.ask_price_1 ELSE tick.last_price)
             ELSE (IF tick.bid_price_1 > 0 THEN tick.bid_price_1 ELSE tick.last_price)]
    ELSE IF order.type = "LIMIT"
    THEN IF order.direction = "LONG"
         THEN IF tick.ask_price_1 > 0 /\ tick.ask_price_1 <= order.price
              THEN [can_fill |-> TRUE, fill_price |-> order.price]
              ELSE IF tick.last_price <= order.price
              THEN [can_fill |-> TRUE, fill_price |-> order.price]
              ELSE [can_fill |-> FALSE, fill_price |-> 0]
         ELSE IF tick.bid_price_1 > 0 /\ tick.bid_price_1 >= order.price
              THEN [can_fill |-> TRUE, fill_price |-> order.price]
              ELSE IF tick.last_price >= order.price
              THEN [can_fill |-> TRUE, fill_price |-> order.price]
              ELSE [can_fill |-> FALSE, fill_price |-> 0]
    ELSE [can_fill |-> FALSE, fill_price |-> 0]

\* the slippage applied the wrong way round
ApplySlippageReversed(direction, fill_price) ==
    IF direction = "LONG"
    THEN fill_price - TimesRate(fill_price, slippage)
    ELSE fill_price + TimesRate(fill_price, slippage)

\* lines 374-378: the fill price with slippage applied
ApplySlippage(direction, fill_price) ==
    IF direction = "LONG"
    THEN fill_price + TimesRate(fill_price, slippage)
    ELSE fill_price - TimesRate(fill_price, slippage)

\* lines 348-366: the first comparison made for the order, quote > 0, raises
\* TypeError when the quote is None
Raises(order, tick) ==
    /\ order.type \in {"MARKET", "LIMIT"}
    /\ IF order.direction = "LONG"
       THEN tick.ask_price_1 = None ELSE tick.bid_price_1 = None

\* The loop of _match_orders over active_orders (ids: the keys still to
\* visit), giving the account and orders_to_remove after the loop or, raised
\* being true, when an exception left it.
RECURSIVE match_loop(_, _, _, _)
match_loop(L, ids, tick, orders_to_remove) ==
    IF ids = <<>>
    THEN [ledger |-> L, orders_to_remove |-> orders_to_remove, raised |-> FALSE]
    ELSE LET orderid == Head(ids)
             order == L.orders[orderid]
             d == FillDecision(order, tick)
         IN  IF order.symbol # tick.vt_symbol
             THEN match_loop(L, Tail(ids), tick, orders_to_remove)
             ELSE IF Raises(order, tick)
             THEN [ledger |-> L, orders_to_remove |-> orders_to_remove,
                   raised |-> TRUE]
             ELSE IF d.can_fill
             THEN match_loop(
                    execute_trade(L, orderid,
                                  ApplySlippage(order.direction, d.fill_price)),
                    Tail(ids), tick, Append(orders_to_remove, orderid))
             ELSE match_loop(L, Tail(ids), tick, orders_to_remove)

\* the filled orders left in active_orders
match_orders_keeping_filled(L, tick) ==
    match_loop(L, L.active_orders, tick, <<>>).ledger

\* the loop left after the first order it visits
match_orders_first_only(L, tick) ==
    LET first == IF L.active_orders = <<>> THEN <<>>
                 ELSE <<Head(L.active_orders)>>
        m == match_loop(L, first, tick, <<>>)
    IN  [m.ledger EXCEPT
            !.active_orders = Without(L.active_orders,
                                      SeqRange(m.orders_to_remove))]

\* lines 335-385; nothing catches an exception of the loop, which leaves
\* the function before "Remove filled orders"
match_orders(L, tick) ==
    LET m == match_loop(L, L.active_orders, tick, <<>>)
    IN  IF m.raised
        THEN [m.ledger EXCEPT !.ret.error_msg = "TypeError"]
        ELSE [m.ledger EXCEPT
                !.active_orders = Without(L.active_orders,
                                          SeqRange(m.orders_to_remove))]

\* line 290: self.ticks[vt_symbol] = tick, under no lock
store_tick(L, tick) ==
    [L EXCEPT !.ticks = Put(L.ticks, tick.vt_symbol, tick.last_price),
              !.ret = NoResult]

\* lines 293-295: the position of the symbol marked, under position_lock
mark_position(L, tick) ==
    [L EXCEPT !.positions =
        [s \in DOMAIN L.positions |->
            IF s = tick.vt_symbol
            THEN calculate_pnl(L.positions[s], tick.last_price)
            ELSE L.positions[s]]]

update_tick(L, tick) ==
    match_orders(mark_position(store_tick(L, tick), tick), tick)

reset(L) ==
    [L EXCEPT !.positions = <<>>, !.orders = <<>>, !.active_orders = <<>>,
              !.balance = initial_capital, !.frozen = 0,
              !.total_commission = 0, !.total_trades = 0,
              !.order_count = 0, !.trade_count = 0, !.ret = NoResult]

\* the sum of pos.pnl over the positions S
RECURSIVE SumPnl(_, _)
SumPnl(poss, S) ==
    IF S = {} THEN Zero
    ELSE LET s == CHOOSE x \in S : TRUE
         IN  FracAdd(poss[s].pnl, SumPnl(poss, S \ {s}))

\* before any call of get_statistics
NoStatistics ==
    [initial_capital |-> 0, current_balance |-> 0, frozen |-> 0,
     total_pnl |-> Zero, total_commission |-> 0, total_trades |-> 0,
     return_pct |-> Zero]

\* lines 507-522
get_statistics(L) ==
    LET total_pnl == SumPnl(L.positions, DOMAIN L.positions)
        gain == FracAdd(FracOfInt(L.balance - initial_capital), total_pnl)
    IN  [initial_capital |-> initial_capital,
         current_balance |-> L.balance,
         frozen |-> L.frozen,
         total_pnl |-> total_pnl,
         total_commission |-> L.total_commission,
         total_trades |-> L.total_trades,
         return_pct |-> Frac(gain.n * 100, gain.d * initial_capital)]

\* ---------------------------------------------------------------- RuleEngine
\* float(compare_value): the number itself; for a string, the number it
\* spells, and ValueError for a string that spells none
ParseFloat(value) ==
    IF ~value.isstr THEN [ok |-> TRUE, num |-> value.num]
    ELSE IF value.str \in DOMAIN NumericStrings
         THEN [ok |-> TRUE, num |-> NumericStrings[value.str]]
         ELSE [ok |-> FALSE, num |-> 0]

\* a crossover taken for the comparison of the current values
evaluate_condition_crossing(rule, indicator_values) ==
    /\ rule.indicator \in DOMAIN indicator_values
    /\ ~rule.value.isstr
    /\ rule.operator \in {">", "gt", "cross_above"}
    /\ indicator_values[rule.indicator] > rule.value.num

\* lines 239-291
evaluate_condition(rule, indicator_values) ==
    IF rule.indicator \notin DOMAIN indicator_values
    THEN FALSE
    ELSE LET current_value == indicator_values[rule.indicator]
             referred ==
                 IF rule.value.isstr /\ rule.value.str \in DOMAIN indicator_values
                 THEN Num(indicator_values[rule.value.str])
                 ELSE rule.value
             parsed == ParseFloat(referred)
             compare_value == parsed.num
             op == rule.operator
         IN  IF ~parsed.ok
             THEN FALSE
             ELSE CASE op \in {">", "gt"} -> current_value > compare_value
                    [] op \in {"<", "lt"} -> current_value < compare_value
                    [] op \in {">=", "ge"} -> current_value >= compare_value
                    [] op \in {"<=", "le"} -> current_value <= compare_value
                    [] op \in {"==", "eq"} ->
                           Abs(current_value - compare_value) < Tolerance
                    [] op \in {"!=", "ne"} ->
                           Abs(current_value - compare_value) >= Tolerance
                    [] op \in {"cross_above", "cross_below"} -> FALSE
                    [] OTHER -> FALSE

\* the loop of lines 171-175 from index i on, with the combinator that
\* condition i carries
RECURSIVE CombineByOwnLogic(_, _, _, _)
CombineByOwnLogic(conditions_met, logic_operators, final_result, i) ==
    IF i > Len(conditions_met)
    THEN final_result
    ELSE CombineByOwnLogic(
            conditions_met, logic_operators,
            IF logic_operators[i] = "and"
            THEN final_result /\ conditions_met[i]
            ELSE final_result \/ conditions_met[i],
            i + 1)

\* lines 171-175: the loop from index i on
RECURSIVE Combine(_, _, _, _)
Combine(conditions_met, logic_operators, final_result, i) ==
    IF i > Len(conditions_met)
    THEN final_result
    ELSE Combine(
            conditions_met, logic_operators,
            IF logic_operators[i - 1] = "and"
            THEN final_result /\ conditions_met[i]
            ELSE final_result \/ conditions_met[i],
            i + 1)

\* sum(conditions_met)
RECURSIVE SumMet(_)
SumMet(conditions_met) ==
    IF conditions_met = <<>> THEN 0
    ELSE (IF Head(conditions_met) THEN 1 ELSE 0) + SumMet(Tail(conditions_met))

\* the strength as 1 for an admitted signal and 0 otherwise
StrengthOfResult(final_result, conditions_met) ==
    IF final_result THEN FracOfInt(1) ELSE Zero

\* line 178
Strength(final_result, conditions_met) ==
    Frac(SumMet(conditions_met), Len(conditions_met))

\* lines 139-180
check_entry_signal(entry_rules, indicator_values) ==
    IF entry_rules = <<>>
    THEN [flag |-> FALSE, strength |-> Zero]
    ELSE LET conditions_met ==
                 [i \in 1..Len(entry_rules) |->
                     evaluate_condition(entry_rules[i], indicator_values)]
             logic_operators ==
                 [i \in 1..Len(entry_rules) |-> entry_rules[i].logic]
             final_result ==
                 Combine(conditions_met, logic_operators, conditions_met[1], 2)
         IN  [flag |-> final_result,
              strength |-> Strength(final_result, conditions_met)]

NoReason == [rule |-> "", indicator |-> ""]

\* lines 231-235: the first exit condition that is met, from index i on
RECURSIVE ExitCondition(_, _, _)
ExitCondition(exit_rules, indicator_values, i) ==
    IF i > Len(exit_rules) \/ indicator_values = <<>>
    THEN [flag |-> FALSE, reason |-> NoReason]
    ELSE IF evaluate_condition(exit_rules[i], indicator_values)
         THEN [flag |-> TRUE,
               reason |-> [rule |-> "condition",
                           indicator |-> exit_rules[i].indicator]]
         ELSE ExitCondition(exit_rules, indicator_values, i + 1)

\* holding days looked at before the prices
check_exit_signal_days_first(cfg, entry_price, current_price, holding_days, indicator_values) ==
    IF cfg.holding_days # 0 /\ holding_days >= cfg.holding_days
    THEN [flag |-> TRUE, reason |-> [rule |-> "max_holding_days", indicator |-> ""]]
    ELSE IF /\ cfg.take_profit # 0 /\ entry_price > 0
            /\ (current_price - entry_price) * PctDen >= cfg.take_profit * entry_price
         THEN [flag |-> TRUE, reason |-> [rule |-> "take_profit", indicator |-> ""]]
         ELSE IF /\ cfg.stop_loss # 0 /\ entry_price > 0
                 /\ (current_price - entry_price) * PctDen
                      <= -cfg.stop_loss * entry_price
              THEN [flag |-> TRUE, reason |-> [rule |-> "stop_loss", indicator |-> ""]]
              ELSE ExitCondition(cfg.exit_rules, indicator_values, 1)

\* lines 182-237; take_profit, stop_loss and holding_days are 0 when the
\* configuration has none (None and 0 are both false to the tests); the
\* rates are hundredths; the reason is the rule, without the figure that the
\* text carries in brackets
check_exit_signal(cfg, entry_price, current_price, holding_days, indicator_values) ==
    IF /\ cfg.take_profit # 0 /\ entry_price > 0
       /\ (current_price - entry_price) * PctDen >= cfg.take_profit * entry_price
    THEN [flag |-> TRUE, reason |-> [rule |-> "take_profit", indicator |-> ""]]
    ELSE IF /\ cfg.stop_loss # 0 /\ entry_price > 0
            /\ (current_price - entry_price) * PctDen
                 <= -cfg.stop_loss * entry_price
         THEN [flag |-> TRUE, reason |-> [rule |-> "stop_loss", indicator |-> ""]]
         ELSE IF cfg.holding_days # 0 /\ holding_days >= cfg.holding_days
              THEN [flag |-> TRUE,
                    reason |-> [rule |-> "max_holding_days", indicator |-> ""]]
              ELSE ExitCondition(cfg.exit_rules, indicator_values, 1)

\* --------------------------------------------------------------- RiskManager
\* The tracking state of the manager as a record.
Risk ==
    [peak_portfolio_value |-> peak_portfolio_value,
     daily_start_value |-> daily_start_value,
     current_drawdown |-> current_drawdown,
     daily_pnl |-> daily_pnl]

\* lines 52-55
NewRisk ==
    [peak_portfolio_value |-> 0, daily_start_value |-> 0,
     current_drawdown |-> Zero, daily_pnl |-> 0]

\* the peak taken from the last value
update_tracking_last_value(R, portfolio_value) ==
    [R EXCEPT !.peak_portfolio_value = portfolio_value,
              !.current_drawdown = Zero]

\* lines 213-223
update_tracking(R, portfolio_value) ==
    LET peak == IF portfolio_value > R.peak_portfolio_value
                THEN portfolio_value
                ELSE R.peak_portfolio_value
    IN  [R EXCEPT !.peak_portfolio_value = peak,
                  !.current_drawdown =
                      IF peak > 0 THEN Frac(peak - portfolio_value, peak)
                      ELSE Zero]

\* current_drawdown > limits.max_drawdown
DrawdownExceeded(R) ==
    R.current_drawdown.n * PctDen > MaxDrawdownPct * R.current_drawdown.d

\* trading allowed whatever the drawdown
is_trading_allowed_always(R) == TRUE

\* lines 225-232
is_trading_allowed(R) == ~DrawdownExceeded(R)

\* len([v for v in current_positions.values() if v != 0])
CurrentCount(current_positions) ==
    Cardinality({s \in DOMAIN current_positions : current_positions[s] # 0})

\* the last n rows
FrameTail(signals, n) ==
    SubSeq(signals, IF n < Len(signals) THEN Len(signals) - n + 1 ELSE 1,
           Len(signals))

\* signals.head(n)
FrameHead(signals, n) ==
    SubSeq(signals, 1, IF n < Len(signals) THEN n ELSE Len(signals))

\* lines 63-105: the tracking state after the call and the frame returned
apply_filters(R, signals, current_positions, portfolio_value) ==
    IF Len(signals) = 0
    THEN [risk |-> R, out |-> signals]
    ELSE LET T == update_tracking(R, portfolio_value)
             available_slots == MaxPositions - CurrentCount(current_positions)
         IN  IF ~is_trading_allowed(T)
             THEN [risk |-> T, out |-> <<>>]
             ELSE IF available_slots <= 0
                  THEN [risk |-> T,
                        out |-> SelectSeq(signals,
                                    LAMBDA s : s \in DOMAIN current_positions)]
                  ELSE [risk |-> T, out |-> FrameHead(signals, available_slots)]

FracLeq(x, y) == x.n * y.d <= y.n * x.d
FracTimes(x, y) == Frac(x.n * y.n, x.d * y.d)

\* the factor without its cap
VolFactorUncapped(volatility) == Frac(ReferenceVolatility, volatility)

\* min(1.0, 0.02 / volatility)
VolFactor(volatility) ==
    IF ReferenceVolatility < volatility
    THEN Frac(ReferenceVolatility, volatility)
    ELSE FracOfInt(1)

\* lines 107-140; the symbol is not read
calculate_position_size(price, portfolio_value, volatility) ==
    LET nominal == Frac(portfolio_value * PositionSizePct, PctDen)
        base_size == IF volatility # 0 /\ volatility > 0
                     THEN FracTimes(nominal, VolFactor(volatility))
                     ELSE nominal
        min_size == FracOfInt(price * MinShares)
    IN  IF ~FracLeq(min_size, base_size) THEN min_size ELSE base_size

\* the drawdown looked at before the daily loss
check_order_drawdown_first(R, symbol, direction, volume, price, current_positions, portfolio_value) ==
    LET order_value == volume * price
    IN  IF DrawdownExceeded(R)
        THEN [allowed |-> FALSE, reason |-> "Maximum drawdown exceeded"]
        ELSE IF R.daily_pnl * PctDen < -DailyLossLimitPct * portfolio_value
        THEN [allowed |-> FALSE, reason |-> "Daily loss limit exceeded"]
        ELSE IF /\ direction = "buy"
                /\ symbol \notin DOMAIN current_positions
                /\ CurrentCount(current_positions) >= MaxPositions
        THEN [allowed |-> FALSE, reason |-> "Maximum positions reached"]
        ELSE IF /\ direction = "buy"
                /\ order_value * PctDen * 2 > portfolio_value * PositionSizePct * 3
        THEN [allowed |-> FALSE, reason |-> "Position size too large"]
        ELSE [allowed |-> TRUE, reason |-> ""]

\* lines 167-211: (is_allowed, rejection_reason)
check_order(R, symbol, direction, volume, price, current_positions, portfolio_value) ==
    LET order_value == volume * price
    IN  IF R.daily_pnl * PctDen < -DailyLossLimitPct * portfolio_value
        THEN [allowed |-> FALSE, reason |-> "Daily loss limit exceeded"]
        ELSE IF DrawdownExceeded(R)
        THEN [allowed |-> FALSE, reason |-> "Maximum drawdown exceeded"]
        ELSE IF /\ direction = "buy"
                /\ symbol \notin DOMAIN current_positions
                /\ CurrentCount(current_positions) >= MaxPositions
        THEN [allowed |-> FALSE, reason |-> "Maximum positions reached"]
        ELSE IF /\ direction = "buy"
                /\ order_value * PctDen * 2 > portfolio_value * PositionSizePct * 3
        THEN [allowed |-> FALSE, reason |-> "Position size too large"]
        ELSE [allowed |-> TRUE, reason |-> ""]

\* lines 234-243
reset_daily(R, portfolio_value) ==
    [R EXCEPT !.daily_start_value = portfolio_value, !.daily_pnl = 0]

\* lines 245-253
update_pnl(R, portfolio_value) ==
    IF R.daily_start_value > 0
    THEN [R EXCEPT !.daily_pnl = portfolio_value - R.daily_start_value]
    ELSE R

NoRiskCall ==
    [call |-> "", signals |-> <<>>, current_positions |-> <<>>,
     portfolio_value |-> 0, out |-> <<>>, allowed |-> FALSE, reason |-> "",
     price |-> 0, volatility |-> 0, size |-> Zero, symbol |-> "",
     direction |-> "", volume |-> 0]

RiskIdle ==
    /\ peak_portfolio_value = NewRisk.peak_portfolio_value
    /\ daily_start_value = NewRisk.daily_start_value
    /\ current_drawdown = NewRisk.current_drawdown
    /\ daily_pnl = NewRisk.daily_pnl
    /\ risk_ret = NoRiskCall

\* ---------------------------------------------------------------- actions
\* no strategy configured, no call made
NoConfig ==
    [entry_rules |-> <<>>, exit_rules |-> <<>>, take_profit |-> 0,
     stop_loss |-> 0, holding_days |-> 0]

NoSignal ==
    [call |-> "", indicator_values |-> <<>>, entry_price |-> 0,
     current_price |-> 0, holding_days |-> 0, flag |-> FALSE,
     strength |-> Zero, reason |-> NoReason]

RulesIdle == config = NoConfig /\ signal = NoSignal

\* connect has started the thread on _run_execution_loop; time starts at 0.
Connected ==
    /\ active = TRUE
    /\ execution_loop = "check"
    /\ closing = ""
    /\ now = 0
    /\ push_by = 0
    /\ wake = 0
    /\ join_by = 0
    /\ published = 0

\* The account after __init__ and connect(setting).
AccountInit ==
    /\ setting = Setting
    /\ balance = setting.initial_capital
    /\ frozen = 0
    /\ positions = <<>>
    /\ orders = <<>>
    /\ active_orders = <<>>
    /\ order_count = 0
    /\ trade_count = 0
    /\ total_commission = 0
    /\ total_trades = 0
    /\ ticks = <<>>
    /\ ret = NoResult
    /\ order_lock = ""
    /\ position_lock = ""
    /\ calls = [t \in Threads |-> <<>>]
    /\ running = [t \in Callers |-> NoCall]
    /\ forked = NewLedger
    /\ Connected
    /\ events = <<>>
    /\ statistics = NoStatistics

Init == AccountInit /\ RulesIdle /\ RiskIdle

\* The step leaves the ledger L.
Settles(L) ==
    /\ balance' = L.balance
    /\ frozen' = L.frozen
    /\ positions' = L.positions
    /\ orders' = L.orders
    /\ active_orders' = L.active_orders
    /\ order_count' = L.order_count
    /\ trade_count' = L.trade_count
    /\ total_commission' = L.total_commission
    /\ total_trades' = L.total_trades
    /\ ticks' = L.ticks
    /\ ret' = L.ret

\* The call leaves the account L.
Becomes(L) ==
    /\ UNCHANGED <<setting, beside_ledger>>
    /\ Settles(L)

SendOrder ==
    /\ order_count < MaxOrders
    /\ \E req \in OrderRequests : Becomes(send_order(Ledger, req))

CancelOrder == \E orderid \in 1..MaxOrders : Becomes(cancel_order(Ledger, orderid))

UpdateTick == \E tick \in TickDatas : Becomes(update_tick(Ledger, tick))

Reset == Becomes(reset(Ledger))

Next == SendOrder \/ CancelOrder \/ UpdateTick \/ Reset

Spec == Init /\ [][Next]_vars

\* The account fed by the web router: trading_engine.update_tick hands
\* update_tick the tick built from the request.
RoutedTick == \E tick \in RoutedTickDatas : Becomes(update_tick(Ledger, tick))

RouterNext == SendOrder \/ CancelOrder \/ RoutedTick \/ Reset

RouterSpec == Init /\ [][RouterNext]_vars

\* The account of the test script: its setting, its requests and its ticks.
GoldenInit ==
    /\ setting = GoldenSetting
    /\ balance = setting.initial_capital
    /\ frozen = 0
    /\ positions = <<>>
    /\ orders = <<>>
    /\ active_orders = <<>>
    /\ order_count = 0
    /\ trade_count = 0
    /\ total_commission = 0
    /\ total_trades = 0
    /\ ticks = <<>>
    /\ ret = NoResult
    /\ order_lock = ""
    /\ position_lock = ""
    /\ calls = [t \in Threads |-> <<>>]
    /\ running = [t \in Callers |-> NoCall]
    /\ forked = NewLedger
    /\ Connected
    /\ events = <<>>
    /\ statistics = NoStatistics
    /\ RulesIdle
    /\ RiskIdle

GoldenSend ==
    /\ order_count < MaxOrders
    /\ \E req \in GoldenRequests : Becomes(send_order(Ledger, req))

GoldenTick == \E tick \in GoldenTickDatas : Becomes(update_tick(Ledger, tick))

GoldenNext == GoldenSend \/ CancelOrder \/ GoldenTick \/ Reset

GoldenSpec == GoldenInit /\ [][GoldenNext]_vars

\* The account and its statistics.
GetStatistics ==
    /\ statistics' = get_statistics(Ledger)
    /\ UNCHANGED <<ledger_vars, beside_statistics>>

\* another call leaves the account L
Returns(L) ==
    /\ Settles(L)
    /\ statistics' = NoStatistics
    /\ UNCHANGED <<setting, beside_statistics>>

StatisticsSendOrder ==
    /\ order_count < MaxOrders
    /\ \E req \in OrderRequests : Returns(send_order(Ledger, req))

StatisticsCancelOrder ==
    \E orderid \in 1..MaxOrders : Returns(cancel_order(Ledger, orderid))

StatisticsUpdateTick == \E tick \in TickDatas : Returns(update_tick(Ledger, tick))

StatisticsReset == Returns(reset(Ledger))

StatisticsNext ==
    \/ StatisticsSendOrder \/ StatisticsCancelOrder \/ StatisticsUpdateTick
    \/ StatisticsReset \/ GetStatistics

StatisticsSpec == Init /\ [][StatisticsNext]_vars

\* -------------------------------------------------------------- RuleEngine
\* The engine built on a configuration, and its two checks.
EntryConfigs ==
    {[NoConfig EXCEPT !.entry_rules = rules] :
        rules \in SeqsUpTo(Rules, MaxConditions)}

ExitRules ==
    {[indicator |-> c.indicator, operator |-> c.operator, value |-> c.value,
      logic |-> "and"] :
        c \in {Condition("rsi", ">", Num(Units(30))),
                Condition("ma", "<", Str("rsi"))}}

ExitConfigs ==
    [entry_rules : {<<>>}, exit_rules : SeqsUpTo(ExitRules, 2),
     take_profit : {0, 10}, stop_loss : {0, 5}, holding_days : {0, 5}]

\* the arguments of a call that has not been made yet
Arguments(indicator_values, entry_price, current_price, holding_days) ==
    [NoSignal EXCEPT !.indicator_values = indicator_values,
                     !.entry_price = entry_price,
                     !.current_price = current_price,
                     !.holding_days = holding_days]

EntryArguments ==
    {Arguments(v, 0, 0, 0) : v \in IndicatorValues}

ExitArguments ==
    {Arguments(v, e, c, d) :
        v \in IndicatorValues, e \in {0, 1000},
        c \in {900, 950, 1000, 1100, 1200}, d \in {0, 5, 6}}

\* an engine on some configuration, and the arguments it is about to be
\* called with
RuleInit ==
    /\ AccountInit
    /\ RiskIdle
    /\ \/ config \in EntryConfigs /\ signal \in EntryArguments
       \/ config \in ExitConfigs /\ signal \in ExitArguments

CheckEntrySignal ==
    /\ signal.call = ""
    /\ \E got \in {check_entry_signal(config.entry_rules, signal.indicator_values)} :
          signal' = [signal EXCEPT !.call = "check_entry_signal",
                                   !.flag = got.flag,
                                   !.strength = got.strength]
    /\ UNCHANGED <<config, beside_rules>>

CheckExitSignal ==
    /\ signal.call = ""
    /\ \E got \in {check_exit_signal(config, signal.entry_price,
                                      signal.current_price, signal.holding_days,
                                      signal.indicator_values)} :
          signal' = [signal EXCEPT !.call = "check_exit_signal",
                                   !.flag = got.flag,
                                   !.reason = got.reason]
    /\ UNCHANGED <<config, beside_rules>>

RuleNext == CheckEntrySignal \/ CheckExitSignal

RuleSpec == RuleInit /\ [][RuleNext]_vars

\* ------------------------------------------------------------- RiskManager
\* The calls of the manager, on its tracking state.
Tracks(R) ==
    /\ peak_portfolio_value' = R.peak_portfolio_value
    /\ daily_start_value' = R.daily_start_value
    /\ current_drawdown' = R.current_drawdown
    /\ daily_pnl' = R.daily_pnl

ApplyFilters ==
    /\ \E signals \in SignalFrames, current_positions \in CurrentPositions,
          portfolio_value \in PortfolioValues :
          \E got \in {apply_filters(Risk, signals, current_positions,
                                    portfolio_value)} :
             /\ Tracks(got.risk)
             /\ risk_ret' = [NoRiskCall EXCEPT
                                !.call = "apply_filters",
                                !.signals = signals,
                                !.current_positions = current_positions,
                                !.portfolio_value = portfolio_value,
                                !.out = got.out]
    /\ UNCHANGED beside_risk

CheckOrder ==
    /\ \E symbol \in {"000001.SZSE", "000002.SZSE"}, direction \in {"buy", "sell"},
          price \in {10, 60}, current_positions \in CurrentPositions,
          portfolio_value \in DailyValues :
          \E got \in {check_order(Risk, symbol, direction, 100, price,
                                  current_positions, portfolio_value)} :
             /\ Tracks(Risk)
             /\ risk_ret' = [NoRiskCall EXCEPT
                                !.call = "check_order",
                                !.symbol = symbol,
                                !.direction = direction,
                                !.volume = 100,
                                !.price = price,
                                !.current_positions = current_positions,
                                !.portfolio_value = portfolio_value,
                                !.allowed = got.allowed,
                                !.reason = got.reason]
    /\ UNCHANGED beside_risk

ResetDaily ==
    /\ \E portfolio_value \in DailyValues :
          Tracks(reset_daily(Risk, portfolio_value))
    /\ risk_ret' = [NoRiskCall EXCEPT !.call = "reset_daily"]
    /\ UNCHANGED beside_risk

UpdatePnl ==
    /\ \E portfolio_value \in DailyValues :
          Tracks(update_pnl(Risk, portfolio_value))
    /\ risk_ret' = [NoRiskCall EXCEPT !.call = "update_pnl"]
    /\ UNCHANGED beside_risk

CalculatePositionSize ==
    /\ \E price \in {10, 60}, portfolio_value \in DailyValues,
          volatility \in Volatilities :
          risk_ret' = [NoRiskCall EXCEPT
                          !.call = "calculate_position_size",
                          !.price = price,
                          !.portfolio_value = portfolio_value,
                          !.volatility = volatility,
                          !.size = calculate_position_size(price, portfolio_value,
                                                           volatility)]
    /\ Tracks(Risk)
    /\ UNCHANGED beside_risk

RiskNext ==
    \/ ApplyFilters \/ CheckOrder \/ ResetDaily \/ UpdatePnl
    \/ CalculatePositionSize

RiskSpec == Init /\ [][RiskNext]_vars

\* ---------------------------------------------------------- notifications
\* What a call puts on the event engine.  An order event carries the order
\* number and the status the order has when it is put; a trade event the
\* trade number; a position event the symbol.
OrderEvent(orderid, status) == [type |-> "eOrder", id |-> orderid, status |-> status]
TradeEvent(tradeid) == [type |-> "eTrade", id |-> tradeid, status |-> ""]
AccountEvent == [type |-> "eAccount", id |-> 0, status |-> ""]
PositionEvent(symbol) == [type |-> "ePosition", id |-> symbol, status |-> ""]

\* lines 195-199: on_order of the rejected order; line 216: on_order of the
\* accepted one
send_order_events(L, req) ==
    LET after == send_order(L, req)
    IN  IF after.ret.orderid = 0
        THEN <<OrderEvent(after.order_count, "REJECTED")>>
        ELSE <<OrderEvent(after.ret.orderid, "NOTTRADED")>>

\* lines 233-235: nothing for an order that is not active; lines 255-256
cancel_order_events(L, orderid) ==
    IF IsActive(L, orderid)
    THEN <<OrderEvent(orderid, "CANCELLED"), AccountEvent>>
    ELSE <<>>

\* lines 451-454, for each trade of the call in turn
RECURSIVE execute_trade_events(_, _)
execute_trade_events(L, trades) ==
    IF trades = <<>>
    THEN <<>>
    ELSE LET trade == Head(trades)
         IN  <<TradeEvent(trade.tradeid),
               OrderEvent(trade.orderid, L.orders[trade.orderid].status),
               AccountEvent, PositionEvent(trade.symbol)>>
             \o execute_trade_events(L, Tail(trades))

\* update_tick puts nothing itself: lines 289-301
update_tick_events(L, tick) ==
    LET after == update_tick(L, tick)
    IN  execute_trade_events(after, after.ret.trades)

\* line 541
reset_events(L) == <<AccountEvent>>

Notifies(L, evs) ==
    /\ Settles(L)
    /\ events' = evs
    /\ UNCHANGED <<setting, beside_notify>>

NotifySendOrder ==
    /\ order_count < MaxOrders
    /\ \E req \in OrderRequests :
          Notifies(send_order(Ledger, req), send_order_events(Ledger, req))

NotifyCancelOrder ==
    \E orderid \in 1..MaxOrders :
        Notifies(cancel_order(Ledger, orderid), cancel_order_events(Ledger, orderid))

NotifyUpdateTick ==
    \E tick \in TickDatas :
        Notifies(update_tick(Ledger, tick), update_tick_events(Ledger, tick))

NotifyReset == Notifies(reset(Ledger), reset_events(Ledger))

NotifyNext ==
    NotifySendOrder \/ NotifyCancelOrder \/ NotifyUpdateTick \/ NotifyReset

NotifySpec == Init /\ [][NotifyNext]_vars

\* ---------------------------------------------------------------- threads
\* Callers run their calls at once.  A step is what a call does between two
\* points where another thread can run on the same data: the body of
\* send_order, of cancel_order and of _match_orders under order_lock, the
\* marking of update_tick under position_lock, its store under no lock.
FirstStep(op) == IF op = "update_tick" THEN "store_tick" ELSE op

SendsOf(cs) == Cardinality({t \in DOMAIN cs : cs[t].op = "send_order"})

\* both callers enter a call
Fork ==
    /\ \A t \in Callers : running[t].pc = ""
    /\ \E cs \in [Callers -> ThreadCalls] :
          /\ order_count + SendsOf(cs) <= MaxOrders
          /\ running' = [t \in Callers |->
                           [op |-> cs[t].op, arg |-> cs[t].arg,
                            pc |-> FirstStep(cs[t].op), ret |-> NoResult]]
    /\ forked' = Ledger
    /\ UNCHANGED <<ledger_vars, beside_threads>>

\* the ledger step of caller t, which takes it to pc
Steps(t, L, pc) ==
    /\ Settles(L)
    /\ running' = [running EXCEPT ![t].pc = pc, ![t].ret = L.ret]
    /\ UNCHANGED <<setting, forked, beside_threads>>

SendOrderStep ==
    \E t \in Callers :
        /\ running[t].pc = "send_order"
        /\ Steps(t, send_order(Ledger, running[t].arg), "done")

CancelOrderStep ==
    \E t \in Callers :
        /\ running[t].pc = "cancel_order"
        /\ Steps(t, cancel_order(Ledger, running[t].arg), "done")

StoreTickStep ==
    \E t \in Callers :
        /\ running[t].pc = "store_tick"
        /\ Steps(t, store_tick(Ledger, running[t].arg), "mark_position")

MarkPositionStep ==
    \E t \in Callers :
        /\ running[t].pc = "mark_position"
        /\ Steps(t, [mark_position(Ledger, running[t].arg) EXCEPT !.ret = NoResult],
                 "match_orders")

MatchOrdersStep ==
    \E t \in Callers :
        /\ running[t].pc = "match_orders"
        /\ Steps(t, match_orders([Ledger EXCEPT !.ret = NoResult], running[t].arg),
                 "done")

\* both calls have returned
Joined == \A t \in Callers : running[t].pc = "done"

Join ==
    /\ Joined
    /\ running' = [t \in Callers |-> NoCall]
    /\ forked' = NewLedger
    /\ UNCHANGED <<ledger_vars, beside_threads>>

ThreadNext ==
    \/ Fork \/ SendOrderStep \/ CancelOrderStep \/ StoreTickStep
    \/ MarkPositionStep \/ MatchOrdersStep \/ Join

ThreadSpec == Init /\ [][ThreadNext]_vars

\* ------------------------------------------------------------ resting sales
\* A buy and the sales of what it bought: orders of one lot of one symbol at
\* one price, one more of them than MaxOrders, and the ticks of the symbol,
\* those that POST /tick builds with a bid and no ask among them.  A tick
\* arrives while the trades are no more than the orders there can be.
SellRequests ==
    {req \in ThreadRequests : req.volume = 100}

SellSendOrder ==
    /\ order_count < MaxOrders + 1
    /\ \E req \in SellRequests : Becomes(send_order(Ledger, req))

SellUpdateTick ==
    /\ trade_count <= MaxOrders + 1
    /\ \E tick \in ThreadTickDatas : Becomes(update_tick(Ledger, tick))

SellRoutedTick ==
    /\ trade_count <= MaxOrders + 1
    /\ \E tick \in {t \in RoutedTickDatas :
                       t.ask_price_1 = None /\ t.bid_price_1 # None} :
          Becomes(update_tick(Ledger, tick))

SellNext ==
    \/ SellSendOrder \/ SellUpdateTick \/ SellRoutedTick \/ CancelOrder
    \/ Reset

SellSpec == Init /\ [][SellNext]_vars

\* ------------------------------------------------------------------ reset
\* reset beside the other calls.  Its steps: the positions cleared under
\* position_lock, the two order maps cleared under order_lock, then the six
\* assignments to the balance and the counters, one at a time under no lock.
ResetCall == [op |-> "reset", arg |-> 0]

\* the calls beside it: a buy, its cancel, and the tick that fills it
ResetCalls ==
    {c \in ThreadCalls :
        \/ c.op = "send_order" /\ c.arg.direction = "LONG" /\ c.arg.volume = 100
        \/ c.op = "cancel_order" /\ c.arg = 1
        \/ c.op = "update_tick"}
    \cup {ResetCall}

ResetSteps ==
    <<"reset_positions", "reset_orders", "reset_balance", "reset_frozen",
      "reset_total_commission", "reset_total_trades", "reset_order_count",
      "reset_trade_count", "done">>

\* the step after pc
ResetThen(pc) ==
    ResetSteps[1 + CHOOSE i \in 1..Len(ResetSteps) - 1 : ResetSteps[i] = pc]

\* lines 526-538, a step at a time
reset_step(L, pc) ==
    CASE pc = "reset_positions" -> [L EXCEPT !.positions = <<>>]
      [] pc = "reset_orders" -> [L EXCEPT !.orders = <<>>, !.active_orders = <<>>]
      [] pc = "reset_balance" -> [L EXCEPT !.balance = initial_capital]
      [] pc = "reset_frozen" -> [L EXCEPT !.frozen = 0]
      [] pc = "reset_total_commission" -> [L EXCEPT !.total_commission = 0]
      [] pc = "reset_total_trades" -> [L EXCEPT !.total_trades = 0]
      [] pc = "reset_order_count" -> [L EXCEPT !.order_count = 0]
      [] pc = "reset_trade_count" -> [L EXCEPT !.trade_count = 0]

\* both callers enter a call, reset among the calls
ResetFork ==
    /\ \A t \in Callers : running[t].pc = ""
    /\ \E cs \in [Callers -> ResetCalls] :
          /\ order_count + SendsOf(cs) <= MaxOrders
          /\ running' = [t \in Callers |->
                           [op |-> cs[t].op, arg |-> cs[t].arg,
                            pc |-> IF cs[t].op = "reset" THEN ResetSteps[1]
                                   ELSE FirstStep(cs[t].op),
                            ret |-> NoResult]]
    /\ forked' = Ledger
    /\ UNCHANGED <<ledger_vars, beside_threads>>

ResetStep ==
    \E t \in Callers :
        /\ running[t].op = "reset" /\ running[t].pc # "done"
        /\ Steps(t, [reset_step(Ledger, running[t].pc) EXCEPT !.ret = NoResult],
                 ResetThen(running[t].pc))

\* both calls have returned; the run ends with the round that had a reset
ResetJoin ==
    /\ \A t \in Callers : running[t].op # "reset"
    /\ Join

ResetNext ==
    \/ ResetFork \/ ResetStep \/ SendOrderStep \/ CancelOrderStep
    \/ StoreTickStep \/ MarkPositionStep \/ MatchOrdersStep \/ ResetJoin

ResetSpec == Init /\ [][ResetNext]_vars

\* ------------------------------------------------------------------ close
\* The execution loop and close, in time.  A step takes no time but
\* _push_account, which returns within PushSeconds, time.sleep, which ends
\* after SleepSeconds, and join, which gives up after JoinTimeout.
SleepSeconds == 1
JoinTimeout == 3
PushSeconds == 1

\* the test of the loop
LoopContinuesWhatever == TRUE

\* line 502: while self._active
LoopContinues == active

\* line 502
LoopCheck ==
    /\ execution_loop = "check"
    /\ IF LoopContinues
       THEN execution_loop' = "push" /\ push_by' = now + PushSeconds
       ELSE execution_loop' = "stopped" /\ UNCHANGED push_by
    /\ UNCHANGED <<active, closing, now, wake, join_by, published>>
    /\ UNCHANGED beside_close

\* lines 504-505: the account is published, the sleep begins
LoopPush ==
    /\ execution_loop = "push"
    /\ published' = published + 1
    /\ execution_loop' = "sleep"
    /\ wake' = now + SleepSeconds
    /\ UNCHANGED <<active, closing, now, push_by, join_by>>
    /\ UNCHANGED beside_close

\* line 505: the sleep is over
LoopWake ==
    /\ execution_loop = "sleep"
    /\ now >= wake
    /\ execution_loop' = "check"
    /\ UNCHANGED <<active, closing, now, push_by, wake, join_by, published>>
    /\ UNCHANGED beside_close

\* lines 155-158: the flag is cleared; the thread is joined if it is alive
Close ==
    /\ closing = ""
    /\ now + JoinTimeout <= MaxTime
    /\ active' = FALSE
    /\ IF execution_loop # "stopped"
       THEN closing' = "join" /\ join_by' = now + JoinTimeout
       ELSE closing' = "returned" /\ UNCHANGED join_by
    /\ UNCHANGED <<execution_loop, now, push_by, wake, published>>
    /\ UNCHANGED beside_close

\* line 158: join returns when the thread has ended or the timeout is over
JoinReturns ==
    /\ closing = "join"
    /\ execution_loop = "stopped" \/ now >= join_by
    /\ closing' = "returned"
    /\ UNCHANGED <<active, execution_loop, now, push_by, wake, join_by, published>>
    /\ UNCHANGED beside_close

\* a second passes, none of the waits under way being over
Second ==
    /\ now < MaxTime
    /\ execution_loop # "check"
    /\ execution_loop = "push" => now < push_by
    /\ execution_loop = "sleep" => now < wake
    /\ closing = "join" => (execution_loop # "stopped" /\ now < join_by)
    /\ now' = now + 1
    /\ UNCHANGED <<active, execution_loop, closing, push_by, wake, join_by,
                   published>>
    /\ UNCHANGED beside_close

CloseNext ==
    LoopCheck \/ LoopPush \/ LoopWake \/ Close \/ JoinReturns \/ Second

\* the thread is scheduled and time passes
CloseSpec ==
    /\ Init
    /\ [][CloseNext]_vars
    /\ WF_vars(LoopCheck \/ LoopPush \/ LoopWake)
    /\ WF_vars(JoinReturns)
    /\ WF_vars(Second)

\* ------------------------------------------------------------------ locks
\* Each operation as the lock operations it does, in order, one sequence for
\* each path through it; line is where the with statement begins or ends.
Acquire(lock, line) == [op |-> "acquire", lock |-> lock, line |-> line]
Release(lock, line) == [op |-> "release", lock |-> lock, line |-> line]

push_account_locks ==
    <<Acquire("position_lock", 465), Release("position_lock", 469)>>

push_position_locks ==
    <<Acquire("position_lock", 482), Release("position_lock", 498)>>

\* _execute_trade: the position update, then the two pushes
execute_trade_locks ==
    <<Acquire("position_lock", 419), Release("position_lock", 424)>>
    \o push_account_locks \o push_position_locks

\* the loop of _match_orders settling k orders
RECURSIVE match_loop_locks(_)
match_loop_locks(k) ==
    IF k = 0 THEN <<>> ELSE execute_trade_locks \o match_loop_locks(k - 1)

\* a buy or an early rejection; a sell, whose position _validate_order reads
send_order_locks ==
    { <<Acquire("order_lock", 182), Release("order_lock", 221)>>,
      <<Acquire("order_lock", 182), Acquire("position_lock", 325),
        Release("position_lock", 329), Release("order_lock", 221)>> }

\* an order that is not active; an active one
cancel_order_locks ==
    { <<Acquire("order_lock", 230), Release("order_lock", 235)>>,
      <<Acquire("order_lock", 230)>> \o push_account_locks
        \o <<Release("order_lock", 258)>> }

update_tick_locks ==
    { <<Acquire("position_lock", 293), Release("position_lock", 295),
        Acquire("order_lock", 335)>>
        \o match_loop_locks(k) \o <<Release("order_lock", 385)>> :
      k \in 0..MaxOrders }

query_position_locks ==
    { <<Acquire("position_lock", 266), Release("position_lock", 279)>> }

get_statistics_locks ==
    { <<Acquire("position_lock", 510), Release("position_lock", 512)>> }

\* reset taking the order lock before it has released the position lock
reset_locks_nested ==
    { <<Acquire("position_lock", 526), Acquire("order_lock", 529),
        Release("order_lock", 531), Release("position_lock", 527)>>
        \o push_account_locks }

reset_locks ==
    { <<Acquire("position_lock", 526), Release("position_lock", 527),
        Acquire("order_lock", 529), Release("order_lock", 531)>>
        \o push_account_locks }

run_execution_loop_locks == { push_account_locks }

\* thread t, running no call, enters an operation on one of its paths
Call(t, paths) ==
    /\ calls[t] = <<>>
    /\ \E path \in paths : calls' = [calls EXCEPT ![t] = path]
    /\ UNCHANGED <<order_lock, position_lock, beside_locks>>

CallSendOrder == \E t \in Callers : Call(t, send_order_locks)
CallCancelOrder == \E t \in Callers : Call(t, cancel_order_locks)
CallUpdateTick == \E t \in Callers : Call(t, update_tick_locks)
CallQueryPosition == \E t \in Callers : Call(t, query_position_locks)
CallGetStatistics == \E t \in Callers : Call(t, get_statistics_locks)
CallReset == \E t \in Callers : Call(t, reset_locks)
RunExecutionLoop == Call(ExecutionThread, run_execution_loop_locks)

Holder(lock) == IF lock = "order_lock" THEN order_lock ELSE position_lock

\* threading.Lock: acquire returns once the lock is free, whoever held it
LockAcquire ==
    \E t \in Threads :
        /\ calls[t] # <<>>
        /\ Head(calls[t]).op = "acquire"
        /\ Holder(Head(calls[t]).lock) = ""
        /\ IF Head(calls[t]).lock = "order_lock"
           THEN order_lock' = t /\ UNCHANGED position_lock
           ELSE position_lock' = t /\ UNCHANGED order_lock
        /\ calls' = [calls EXCEPT ![t] = Tail(calls[t])]
        /\ UNCHANGED beside_locks

LockRelease ==
    \E t \in Threads :
        /\ calls[t] # <<>>
        /\ Head(calls[t]).op = "release"
        /\ IF Head(calls[t]).lock = "order_lock"
           THEN order_lock' = "" /\ UNCHANGED position_lock
           ELSE position_lock' = "" /\ UNCHANGED order_lock
        /\ calls' = [calls EXCEPT ![t] = Tail(calls[t])]
        /\ UNCHANGED beside_locks

LockNext ==
    \/ CallSendOrder \/ CallCancelOrder \/ CallUpdateTick
    \/ CallQueryPosition \/ CallGetStatistics \/ CallReset
    \/ RunExecutionLoop \/ LockAcquire \/ LockRelease

LockSpec == Init /\ [][LockNext]_vars

\* ----------------------------------------------------------- the properties
\* The account a call with this argument would leave, from the current one.
AfterSend(req) == send_order(Ledger, req)
AfterCancel(orderid) == cancel_order(Ledger, orderid)
AfterTick(tick) == update_tick(Ledger, tick)

\* Order numbers a cancel request may carry: none (0), those given out, and
\* one never given out.
OrderIds == 0..(MaxOrders + 1)

FracOfCost(poss, s) == FracTimesInt(poss[s].avg_price, poss[s].volume)

RECURSIVE SumCost(_, _)
SumCost(poss, S) ==
    IF S = {} THEN Zero
    ELSE LET s == CHOOSE x \in S : TRUE
         IN  FracAdd(FracOfCost(poss, s), SumCost(poss, S \ {s}))

\* balance + frozen + the sum over positions of volume * avg_price
Conserved(L) ==
    FracAdd(FracOfInt(L.balance + L.frozen),
            SumCost(L.positions, DOMAIN L.positions))

\* commission and stamp duty of a trade, from its price, volume and direction
CostOfTrade(t) ==
    ((t.price * t.volume * CommissionNum) \div RateDen)
    + (IF t.direction = "SHORT"
       THEN (t.price * t.volume * StampDutyNum) \div RateDen ELSE 0)

RECURSIVE CostOfTrades(_)
CostOfTrades(trs) ==
    IF trs = <<>> THEN 0 ELSE CostOfTrade(Head(trs)) + CostOfTrades(Tail(trs))

RECURSIVE NotionalOfTrades(_)
NotionalOfTrades(trs) ==
    IF trs = <<>> THEN 0
    ELSE Head(trs).price * Head(trs).volume + NotionalOfTrades(Tail(trs))

\* what the trades pay into the cash of the account: minus the notional of
\* a buy, plus the notional of a sell
RECURSIVE CashOfTrades(_)
CashOfTrades(trs) ==
    IF trs = <<>> THEN 0
    ELSE (IF Head(trs).direction = "LONG" THEN -1 ELSE 1)
            * Head(trs).price * Head(trs).volume
         + CashOfTrades(Tail(trs))

AllLong(trs) == \A i \in 1..Len(trs) : trs[i].direction = "LONG"
AllShort(trs) == \A i \in 1..Len(trs) : trs[i].direction = "SHORT"

HeldVolume(s) == IF s \in DOMAIN positions THEN positions[s].volume ELSE 0
HeldAvgPrice(s) == IF s \in DOMAIN positions THEN positions[s].avg_price ELSE Zero
Min(a, b) == IF a < b THEN a ELSE b

\* the same symbols held, each with the same volume and average price
SameHoldings(poss1, poss2) ==
    /\ DOMAIN poss1 = DOMAIN poss2
    /\ \A s \in DOMAIN poss1 :
          /\ poss1[s].volume = poss2[s].volume
          /\ poss1[s].avg_price = poss2[s].avg_price

\* the account but for the result of the last call
SameLedger(L1, L2) == [L1 EXCEPT !.ret = NoResult] = [L2 EXCEPT !.ret = NoResult]

\* C1 (as claimed): balance + frozen + sum of volume * avg_price is the
\* initial capital minus the commission and stamp duty charged so far, after
\* every sequence of send_order, cancel_order and update_tick, sells included.
C1_Conservation ==
    Conserved(Ledger) = FracOfInt(initial_capital - total_commission)

\* C1 (amended): a send_order, a cancel_order and an update_tick whose fills
\* are all buys leave balance + frozen + sum of volume * avg_price at its
\* value before the call minus the commission charged by the call; an
\* update_tick that fills one sell changes it by the fill's notional minus
\* commission and stamp duty, minus avg_price times the volume the fill takes
\* off the position; every update_tick changes balance + frozen by the
\* notional of its sells minus the notional of its buys minus the commission
\* and stamp duty of its fills.
C1_Fills(before, after, trs) ==
    /\ AllLong(trs) => after = FracAdd(before, FracOfInt(-CostOfTrades(trs)))
    /\ (Len(trs) = 1 /\ trs[1].direction = "SHORT")
       => LET t == trs[1]
              taken == Min(t.volume, HeldVolume(t.symbol))
          IN  after = FracAdd(FracAdd(before,
                                      FracOfInt(t.price * t.volume - CostOfTrade(t))),
                              FracTimesInt(HeldAvgPrice(t.symbol), -taken))

C1_ConservationOfBuys ==
 [] \A before \in {Conserved(Ledger)} :
        /\ \A req \in OrderRequests : \A L2 \in {AfterSend(req)} :
              /\ L2.balance + L2.frozen = balance + frozen
              /\ SameHoldings(L2.positions, positions)
        /\ \A orderid \in OrderIds : \A L2 \in {AfterCancel(orderid)} :
              /\ L2.balance + L2.frozen = balance + frozen
              /\ SameHoldings(L2.positions, positions)
        /\ \A tick \in TickDatas : \A L2 \in {AfterTick(tick)} :
              \A trs \in {L2.ret.trades} :
                 /\ L2.balance + L2.frozen
                      = balance + frozen + CashOfTrades(trs) - CostOfTrades(trs)
                 /\ L2.total_commission = total_commission + CostOfTrades(trs)
                 /\ trs = <<>> => SameHoldings(L2.positions, positions)
                 /\ trs # <<>> => C1_Fills(before, Conserved(L2), trs)

C1_Witness ==
    /\ Len(ret.trades) = 1
    /\ ret.trades[1].direction = "SHORT"
    /\ \E s \in DOMAIN positions : positions[s].volume > 0
    /\ Conserved(Ledger) # FracOfInt(initial_capital - total_commission)

\* C2: send_order returns an order number exactly when the volume is a
\* multiple of 100 that is at least 100 and, for a buy, price * volume *
\* (1 + commission_rate) <= balance - frozen, for a sell, the position held
\* on the symbol has at least the requested volume; otherwise it returns the
\* empty identifier.
C2_Accepts(req) ==
    /\ req.volume >= 100
    /\ req.volume % 100 = 0
    /\ req.direction = "LONG"
       => req.price * req.volume * (RateDen + CommissionNum)
            <= (balance - frozen) * RateDen
    /\ req.direction = "SHORT" => HeldVolume(req.symbol) >= req.volume

C2_AcceptedExactlyWhenValid ==
    \A req \in OrderRequests : \A L2 \in {AfterSend(req)} :
        /\ L2.ret.orderid # 0 <=> C2_Accepts(req)
        /\ L2.ret.orderid \in {0, order_count + 1}

C2_Witness ==
    /\ ret.status = "REJECTED"
    /\ ret.error_msg = "Insufficient funds"
    /\ active_orders # <<>>
    /\ balance > 0

\* C3: send_order with a volume below 100 or not a multiple of 100 is
\* rejected, whatever the direction and the price, and balance and frozen
\* are after the call what they were before it.
C3_LotInvariant ==
    \A req \in {r \in OrderRequests : r.volume < 100 \/ r.volume % 100 # 0} :
        \A L2 \in {AfterSend(req)} :
           /\ L2.ret.orderid = 0
           /\ L2.ret.status = "REJECTED"
           /\ L2.balance = balance
           /\ L2.frozen = frozen

C3_Witness ==
    /\ ret.status = "REJECTED"
    /\ ret.error_msg = "Volume must be multiple of 100"
    /\ frozen > 0

\* C4 (as claimed): a rejected send_order changes nothing: balance, frozen,
\* positions, the order map, the active-order map, the order counter and the
\* trade counter are what they were.
C4_RejectionChangesNothing ==
    \A req \in OrderRequests : \A L2 \in {AfterSend(req)} :
        L2.ret.orderid = 0 => SameLedger(L2, Ledger)

\* C4 (amended): a rejected send_order leaves balance, frozen, positions, the
\* order map, the active-order map and the trade counter as they were, and
\* advances the order counter by one.
C4_RejectionKeepsTheLedger ==
    \A req \in OrderRequests : \A L2 \in {AfterSend(req)} :
        L2.ret.orderid = 0
        => /\ SameLedger(L2, [Ledger EXCEPT !.order_count = order_count + 1])
           /\ L2.ret.status = "REJECTED"

C4_Witness ==
    /\ ret.status = "REJECTED"
    /\ ret.error_msg = "Insufficient position"
    /\ order_count = 2
    /\ Len(active_orders) = 1

\* C5: an accepted buy moves price * volume * (1 + commission_rate) from
\* balance to frozen and is active with status NOTTRADED; an accepted sell
\* leaves balance and frozen as they were.
C5_AcceptedOrderFreezes ==
 [] \A req \in OrderRequests : \A L2 \in {AfterSend(req)} :
            L2.ret.orderid # 0
            => /\ L2.ret.orderid \in SeqRange(L2.active_orders)
               /\ L2.ret.orderid \notin SeqRange(active_orders)
               /\ L2.orders[L2.ret.orderid].status = "NOTTRADED"
               /\ req.direction = "LONG"
                  => /\ (balance - L2.balance) * RateDen
                          = req.price * req.volume * (RateDen + CommissionNum)
                     /\ L2.frozen - frozen = balance - L2.balance
               /\ req.direction = "SHORT"
                  => (L2.balance = balance /\ L2.frozen = frozen)

C5_Witness ==
    /\ ret.status = "NOTTRADED"
    /\ orders[ret.orderid].direction = "LONG"
    /\ frozen > 0
    /\ Len(active_orders) = 2

\* C6: cancelling an active buy order moves price * unfilled volume *
\* (1 + commission_rate) back from frozen to balance, leaves the order
\* CANCELLED and not active; a buy submitted and cancelled before any fill
\* leaves balance and frozen what they were before the submission.
C6_CancelUnfreezes ==
    /\ \A orderid \in SeqRange(active_orders) :
          \A L2 \in {AfterCancel(orderid)} : \A order \in {orders[orderid]} :
              /\ L2.orders[orderid].status = "CANCELLED"
              /\ orderid \notin SeqRange(L2.active_orders)
              /\ order.direction = "LONG"
                 => /\ (L2.balance - balance) * RateDen
                         = order.price * (order.volume - order.traded)
                             * (RateDen + CommissionNum)
                    /\ frozen - L2.frozen = L2.balance - balance
    /\ \A req \in {r \in OrderRequests : r.direction = "LONG"} :
          \A L1 \in {AfterSend(req)} : \A L2 \in {cancel_order(L1, L1.ret.orderid)} :
              L1.ret.orderid # 0
              => /\ L1.frozen > frozen
                 /\ L2.balance = balance
                 /\ L2.frozen = frozen
                 /\ L2.orders[L1.ret.orderid].status = "CANCELLED"
                 /\ L1.ret.orderid \notin SeqRange(L2.active_orders)

C6_Witness ==
    /\ order_count = 1
    /\ DOMAIN orders = {1}
    /\ orders[1].status = "CANCELLED"
    /\ orders[1].direction = "LONG"
    /\ active_orders = <<>>
    /\ balance = initial_capital
    /\ frozen = 0

\* C7: cancel_order on an order number that is not active (never given out,
\* rejected, ALLTRADED or CANCELLED) changes nothing in the account, and a
\* second cancel of the same order changes nothing after the first.
C7_CancelOfInactiveIsNoOp ==
    /\ \A orderid \in OrderIds :
          orderid \notin SeqRange(active_orders)
          => SameLedger(AfterCancel(orderid), Ledger)
    /\ \A orderid \in SeqRange(active_orders) :
          \A L1 \in {AfterCancel(orderid)} : \A L2 \in {cancel_order(L1, orderid)} :
              /\ SameLedger(L2, L1)
              /\ L2.frozen = L1.frozen
              /\ L2.balance = L1.balance

C7_Witness ==
    /\ \E i \in DOMAIN orders :
          orders[i].status = "ALLTRADED" /\ orders[i].direction = "LONG"
    /\ \E i \in DOMAIN orders : orders[i].status = "CANCELLED"
    /\ ret = NoResult

\* C8: an order enters the order map as NOTTRADED (or is rejected and never
\* stored), moves from NOTTRADED or PARTTRADED only to PARTTRADED, ALLTRADED
\* or CANCELLED, never changes once ALLTRADED or CANCELLED, and its traded
\* volume never exceeds its volume.
Terminal == {"REJECTED", "ALLTRADED", "CANCELLED"}

C8_Move(before, after) ==
    \/ after = before
    \/ /\ before.status \in {"NOTTRADED", "PARTTRADED"}
       /\ after.status \in {"PARTTRADED", "ALLTRADED", "CANCELLED"}
       /\ after.traded >= before.traded
       /\ [after EXCEPT !.status = before.status, !.traded = before.traded] = before

C8_StatusMonotonic ==
    [][/\ \A i \in DOMAIN orders \cap DOMAIN orders' :
             /\ C8_Move(orders[i], orders'[i])
             /\ orders[i].status \in Terminal => orders'[i] = orders[i]
       /\ \A i \in DOMAIN orders' \ DOMAIN orders :
             orders'[i].status = "NOTTRADED" /\ orders'[i].traded = 0
       /\ \A i \in DOMAIN orders' :
             /\ orders'[i].traded <= orders'[i].volume
             /\ orders'[i].status # "REJECTED"
       /\ ret'.status = "REJECTED" => orders' = orders
      ]_vars

C8_Witness ==
    /\ \E i \in DOMAIN orders :
          orders[i].status = "ALLTRADED" /\ orders[i].traded = orders[i].volume
    /\ \E i \in DOMAIN orders : orders[i].status = "CANCELLED"
    /\ ret.trades # <<>>

C10_WeightedAverage ==
 [] \A tick \in TickDatas : \A L2 \in {AfterTick(tick)} :
        \A trs \in {L2.ret.trades} : \A s \in {tick.vt_symbol} :
            trs # <<>>
            => /\ AllLong(trs)
                  => FracOfCost(L2.positions, s) =
                       FracAdd(FracTimesInt(HeldAvgPrice(s), HeldVolume(s)),
                               FracOfInt(NotionalOfTrades(trs)))
               /\ (AllShort(trs) /\ L2.positions[s].volume > 0)
                  => L2.positions[s].avg_price = HeldAvgPrice(s)

\* 200 at 10 then 100 at 11, each fill price raised by the slippage
C10_Witness ==
    LET fill10 == (10 * MoneyScale * (RateDen + SlippageNum)) \div RateDen
        fill11 == (11 * MoneyScale * (RateDen + SlippageNum)) \div RateDen
    IN  \E s \in DOMAIN positions :
            /\ positions[s].volume = 300
            /\ positions[s].avg_price = Frac(200 * fill10 + 100 * fill11, 300)
            /\ positions[s].avg_price.d # 1

\* ---------------------------------------------------------------- matching
\* the active orders on a symbol, and the ticks that find such an order
ActiveOn(symbol) ==
    {i \in SeqRange(active_orders) : orders[i].symbol = symbol}

TicksOnOrders(type) ==
    {t \in TickDatas : \E i \in ActiveOn(t.vt_symbol) : orders[i].type \in type}

\* the trades of a call that settle the order
TradesOf(L, orderid) ==
    {k \in 1..Len(L.ret.trades) : L.ret.trades[k].orderid = orderid}

\* a price after slippage: up for a buy, down for a sell
Slipped(direction, price) ==
    IF direction = "LONG"
    THEN (price * (RateDen + SlippageNum)) \div RateDen
    ELSE (price * (RateDen - SlippageNum)) \div RateDen

\* the fill condition of a limit order; a quote of zero is no quote
LimitCondition(order, tick) ==
    IF order.direction = "LONG"
    THEN (tick.ask_price_1 > 0 /\ tick.ask_price_1 <= order.price)
         \/ tick.last_price <= order.price
    ELSE (tick.bid_price_1 > 0 /\ tick.bid_price_1 >= order.price)
         \/ tick.last_price >= order.price

\* C11: update_tick fills a resting limit buy on the tick's symbol exactly
\* when there is an ask (a quote above zero) <= order price or last <= order
\* price, a resting limit sell exactly when there is a bid >= order price or
\* last >= order price; the fill is at the limit price with the slippage
\* applied, for the order's volume, never at the tick's price.
C11_LimitFillsOnQuoteOrLast ==
 [] \A tick \in TicksOnOrders({"LIMIT"}) : \A L2 \in {AfterTick(tick)} :
        \A i \in ActiveOn(tick.vt_symbol) :
            orders[i].type = "LIMIT"
            => /\ TradesOf(L2, i) # {} <=> LimitCondition(orders[i], tick)
               /\ \A k \in TradesOf(L2, i) :
                     /\ L2.ret.trades[k].price
                          = Slipped(orders[i].direction, orders[i].price)
                     /\ L2.ret.trades[k].volume = orders[i].volume

\* a limit buy filled by the ask while the last price is above its limit
C11_Witness ==
    \E k \in 1..Len(ret.trades) :
        LET t == ret.trades[k]
        IN  /\ orders[t.orderid].type = "LIMIT"
            /\ t.direction = "LONG"
            /\ ticks[t.symbol] > orders[t.orderid].price
            /\ t.price = Slipped("LONG", orders[t.orderid].price)

\* C12: update_tick fills every resting market order on the tick's symbol,
\* a buy at the ask and a sell at the bid when that quote is greater than
\* zero, at the last price otherwise, with the slippage then applied.
C12_MarketFillsAtQuote ==
    \A tick \in TicksOnOrders({"MARKET"}) : \A L2 \in {AfterTick(tick)} :
        \A i \in ActiveOn(tick.vt_symbol) :
            orders[i].type = "MARKET"
            => LET quote == IF orders[i].direction = "LONG"
                            THEN tick.ask_price_1 ELSE tick.bid_price_1
                   at == IF quote > 0 THEN quote ELSE tick.last_price
               IN  /\ Cardinality(TradesOf(L2, i)) = 1
                   /\ \A k \in TradesOf(L2, i) :
                         /\ L2.ret.trades[k].price
                              = Slipped(orders[i].direction, at)
                         /\ L2.ret.trades[k].volume = orders[i].volume

\* a market buy filled at an ask above the last price
C12_Witness ==
    \E k \in 1..Len(ret.trades) :
        LET t == ret.trades[k]
        IN  /\ orders[t.orderid].type = "MARKET"
            /\ t.direction = "LONG"
            /\ t.price = Slipped("LONG", 11 * MoneyScale)
            /\ ticks[t.symbol] = 10 * MoneyScale

\* the fill condition of an order of either type
Eligible(order, tick) ==
    order.type = "MARKET" \/ LimitCondition(order, tick)

\* C14: when update_tick returns, every order that was active on the tick's
\* symbol and met its fill condition is ALLTRADED, wholly traded and no
\* longer active, however many there were; the other orders are as they
\* were.
C14_EveryEligibleOrderFills ==
 [] \A tick \in TicksOnOrders({"LIMIT", "MARKET"}) : \A L2 \in {AfterTick(tick)} :
        /\ \A i \in SeqRange(active_orders) :
              IF orders[i].symbol = tick.vt_symbol /\ Eligible(orders[i], tick)
              THEN /\ L2.orders[i].status = "ALLTRADED"
                   /\ L2.orders[i].traded = orders[i].volume
                   /\ i \notin SeqRange(L2.active_orders)
              ELSE /\ L2.orders[i] = orders[i]
                   /\ i \in SeqRange(L2.active_orders)
        /\ Len(L2.ret.trades)
             = Cardinality({i \in ActiveOn(tick.vt_symbol) : Eligible(orders[i], tick)})

\* two orders filled by one tick
C14_Witness ==
    /\ Len(ret.trades) = 2
    /\ ret.trades[1].orderid # ret.trades[2].orderid
    /\ \A k \in 1..2 : orders[ret.trades[k].orderid].status = "ALLTRADED"
    /\ active_orders = <<>>

\* ------------------------------------------------------------------- costs
\* C15: a call that makes trades adds to total_commission, for each trade,
\* notional * commission_rate, and notional * stamp_duty_rate when the trade
\* is a sell (nothing for stamp duty when it is a buy); a call that makes no
\* trade leaves total_commission as it is; reset puts it, with the trade
\* counter, at zero.  With total_commission = 0 at the start, it is the sum
\* over the trades since the last reset.
C15_CommissionAccumulates ==
    [][\/ /\ total_commission' = total_commission + CostOfTrades(ret'.trades)
          /\ trade_count' = trade_count + Len(ret'.trades)
       \/ /\ ret'.trades = <<>>
          /\ total_commission' = 0
          /\ trade_count' = 0
          /\ orders' = <<>>
      ]_vars

\* a sell after a buy: the total is the cost of both
C15_Witness ==
    /\ Len(ret.trades) = 1
    /\ ret.trades[1].direction = "SHORT"
    /\ trade_count = 2
    /\ total_commission > CostOfTrades(ret.trades)
    /\ CostOfTrade(ret.trades[1])
         > (ret.trades[1].price * ret.trades[1].volume * CommissionNum) \div RateDen

\* ------------------------------------------------------------------ frozen
\* price * unfilled volume * (1 + commission_rate), summed over the active
\* buy orders among ids
RECURSIVE ReservedFor(_)
ReservedFor(ids) ==
    IF ids = <<>> THEN 0
    ELSE (LET o == orders[Head(ids)]
          IN  IF o.direction = "LONG"
              THEN (o.price * (o.volume - o.traded) * (RateDen + CommissionNum))
                     \div RateDen
              ELSE 0)
         + ReservedFor(Tail(ids))

\* C16: frozen is the sum over the active buy orders of price * unfilled
\* volume * (1 + commission_rate); it is never negative, and zero when no
\* buy order is active.
C16_FrozenIsReserved ==
    /\ frozen = ReservedFor(active_orders)
    /\ frozen >= 0
    /\ (\A i \in SeqRange(active_orders) : orders[i].direction # "LONG")
       => frozen = 0

\* one buy filled and released, another still reserved
C16_Witness ==
    /\ Len(active_orders) = 1
    /\ orders[active_orders[1]].direction = "LONG"
    /\ \E i \in DOMAIN orders :
          orders[i].status = "ALLTRADED" /\ orders[i].direction = "LONG"
    /\ frozen > 0

\* C17 (as claimed): what the fill of a buy order debits, its notional plus
\* its commission, is at most what send_order reserved for the order, and
\* the balance is never negative.
C17_ReservationCoversFill ==
    /\ balance >= 0
    /\ \A tick \in TicksOnOrders({"LIMIT", "MARKET"}) : \A L2 \in {AfterTick(tick)} :
          \A k \in 1..Len(L2.ret.trades) :
              LET t == L2.ret.trades[k]
                  o == orders[t.orderid]
              IN  t.direction = "LONG"
                  => t.price * t.volume
                       + (t.price * t.volume * CommissionNum) \div RateDen
                     <= (o.price * o.volume * (RateDen + CommissionNum)) \div RateDen

\* ------------------------------------------------------------------ trades
RECURSIVE VolumeOfTrades(_)
VolumeOfTrades(trs) ==
    IF trs = <<>> THEN 0 ELSE Head(trs).volume + VolumeOfTrades(Tail(trs))

Comparable(tick) ==
    {i \in ActiveOn(tick.vt_symbol) :
        IF orders[i].direction = "LONG"
        THEN tick.ask_price_1 # None ELSE tick.bid_price_1 # None}

\* C19 (as claimed): when the settlement of one order fails inside
\* update_tick, the call still returns without the error, and every other
\* order on the symbol that meets its fill condition is settled by the call.
C19_FailureIsIsolated ==
    \A tick \in RoutedTickDatas : \A L2 \in {update_tick(Ledger, tick)} :
        /\ L2.ret.error_msg # "TypeError"
        /\ \A i \in Comparable(tick) :
              Eligible(orders[i], tick)
              => /\ L2.orders[i].status = "ALLTRADED"
                 /\ i \notin SeqRange(L2.active_orders)

\* ------------------------------------------------------------------ golden
\* C13: with capital 100,000, commission 0.03%, stamp duty 0.1% and slippage
\* 0.1%, the limit buy of 1000 at 10.50 leaves frozen = 10,503.15 and
\* balance = 89,496.85; the tick with ask 10.48 then fills it at 10.5105 and
\* leaves frozen = 0, 1000 shares at average cost 10.5105 and balance =
\* 100,000 - 10,510.50 - 3.15315.
C13_GoldenScenario ==
    (orders = <<>> /\ positions = <<>> /\ balance = Amount(100000, 0))
    => \A L1 \in {send_order(Ledger, GoldenBuy)} :
          /\ L1.ret.orderid # 0
          /\ L1.frozen = Amount(10503, 15000)
          /\ L1.balance = Amount(89496, 85000)
          /\ \A L2 \in {update_tick(L1, GoldenFillTick)} :
                /\ Len(L2.ret.trades) = 1
                /\ L2.ret.trades[1].price = Amount(10, 51050)
                /\ L2.ret.trades[1].volume = 1000
                /\ L2.frozen = 0
                /\ L2.positions["000001.SZSE"].volume = 1000
                /\ L2.positions["000001.SZSE"].avg_price
                     = [n |-> Amount(10, 51050), d |-> 1]
                /\ L2.balance
                     = (Amount(100000, 0) - Amount(10510, 50000)) - Amount(3, 15315)

\* the scenario played: the buy submitted to the new account and filled
C13_Witness ==
    /\ setting = GoldenSetting
    /\ order_count = 1
    /\ DOMAIN orders = {1}
    /\ orders[1].status = "ALLTRADED"
    /\ orders[1].volume = 1000
    /\ Len(ret.trades) = 1
    /\ ret.trades[1].price = Amount(10, 51050)
    /\ ticks["000001.SZSE"] = Amount(10, 48000)
    /\ frozen = 0
    /\ balance = (Amount(100000, 0) - Amount(10510, 50000)) - Amount(3, 15315)
    /\ positions["000001.SZSE"].avg_price = [n |-> Amount(10, 51050), d |-> 1]

\* ------------------------------------------------------------------- locks
\* thread t is at an acquire of a lock that thread u holds
WaitsFor(t, u) ==
    /\ calls[t] # <<>>
    /\ Head(calls[t]).op = "acquire"
    /\ Holder(Head(calls[t]).lock) = u

\* C20: no thread asks for the order lock while it holds the position lock,
\* and no threads running send_order, cancel_order, update_tick,
\* query_position, get_statistics, reset and the periodic publisher ever
\* wait for each other's locks (nor a thread for a lock it holds itself).
C20_LockOrder ==
    /\ \A t \in Threads :
          (calls[t] # <<>> /\ Head(calls[t]) \in
               {Acquire("order_lock", line) : line \in {182, 230, 335, 529}})
          => position_lock # t
    /\ \A t, u \in Threads : ~(WaitsFor(t, u) /\ WaitsFor(u, t))

\* a thread holds the order lock with the position lock inside it, while
\* another waits for the order lock and a third for the position lock
C20_Witness ==
    \E t, u, v \in Threads :
        /\ order_lock = t
        /\ position_lock = t
        /\ WaitsFor(u, t) /\ Head(calls[u]).lock = "order_lock"
        /\ WaitsFor(v, t) /\ Head(calls[v]).lock = "position_lock"

\* ----------------------------------------------------------------- threads
\* the account a call leaves when nothing runs beside it
Apply(L, call) ==
    CASE call.op = "send_order" -> send_order(L, call.arg)
      [] call.op = "cancel_order" -> cancel_order(L, call.arg)
      [] call.op = "update_tick" -> update_tick(L, call.arg)

\* the account the two calls leave when caller a's runs first, then b's
Serial(a, b) == Apply(Apply(forked, running[a]), running[b])

SerialOutcomes ==
    {Serial(c[1], c[2]) : c \in {c \in Callers \X Callers : c[1] # c[2]}}

Statuses(L) == [i \in DOMAIN L.orders |-> L.orders[i].status]

\* what the claim compares: balance, frozen, order statuses and positions
Outcome(L) ==
    [balance |-> L.balance, frozen |-> L.frozen, statuses |-> Statuses(L),
     positions |-> L.positions]

\* the same, a position being its volume and its average cost
Holdings(L) ==
    [balance |-> L.balance, frozen |-> L.frozen, statuses |-> Statuses(L),
     positions |-> [s \in DOMAIN L.positions |->
                      [volume |-> L.positions[s].volume,
                       avg_price |-> L.positions[s].avg_price]]]

\* two buys that the funds free at the fork cannot both cover
BuysBeyondFunds ==
    /\ \A t \in Callers :
          running[t].op = "send_order" /\ running[t].arg.direction = "LONG"
    /\ \E c \in {c \in Callers \X Callers : c[1] # c[2]} :
          Reservation(running[c[1]].arg.price, running[c[1]].arg.volume)
          + Reservation(running[c[2]].arg.price, running[c[2]].arg.volume)
            > forked.balance - forked.frozen

\* C21 (as claimed): when concurrent send_order, cancel_order and update_tick
\* calls have returned, the balance, frozen, the order statuses and the
\* positions are those of one of the serial executions of the calls; two
\* concurrent buys whose reservations together exceed the funds are never
\* both accepted.
C21_NoLostUpdate ==
    Joined
    => /\ Outcome(Ledger) \in {Outcome(L) : L \in SerialOutcomes}
       /\ BuysBeyondFunds => \E t \in Callers : running[t].ret.orderid = 0

\* what holds of the calls: the serial outcome but for the marked P&L
C21_HoldingsAreSerial ==
    Joined
    => /\ Holdings(Ledger) \in {Holdings(L) : L \in SerialOutcomes}
       /\ BuysBeyondFunds => \E t \in Callers : running[t].ret.orderid = 0

\* two buys of 300 at 10 have run at once and one was turned down
C21_TwoBuys ==
    /\ Joined
    /\ BuysBeyondFunds
    /\ \E t \in Callers : running[t].ret.orderid # 0
    /\ \E t \in Callers : running[t].ret.orderid = 0

EventsOf(evs, type) == {k \in 1..Len(evs) : evs[k].type = type}

\* the orders whose status the step changes (a new order has none before)
OrdersChanged ==
    {i \in DOMAIN orders' :
        i \notin DOMAIN orders \/ orders'[i].status # orders[i].status}

PositionsChanged ==
    {s \in DOMAIN positions' :
        s \notin DOMAIN positions \/ positions'[s] # positions[s]}

\* C23 (as claimed): a call that changes balance or frozen puts an account
\* notification, a call that changes a position puts a notification of that
\* position, and a call that changes an order's status puts exactly one
\* order notification with the new status, after any other of that order.
C23_EveryMutationNotifies ==
    [][/\ (balance' # balance \/ frozen' # frozen)
          => EventsOf(events', "eAccount") # {}
       /\ \A s \in PositionsChanged :
             \E k \in EventsOf(events', "ePosition") : events'[k].id = s
       /\ \A i \in OrdersChanged :
             /\ Cardinality({k \in EventsOf(events', "eOrder") :
                                events'[k].id = i}) = 1
             /\ \E k \in EventsOf(events', "eOrder") :
                   events'[k].id = i /\ events'[k].status = orders'[i].status]_vars

\* what holds of the orders: a change of status and its notification
C23_OrderStatusNotifies ==
    [][\A i \in OrdersChanged :
          /\ Cardinality({k \in EventsOf(events', "eOrder") :
                             events'[k].id = i}) = 1
          /\ \E k \in EventsOf(events', "eOrder") :
                events'[k].id = i /\ events'[k].status = orders'[i].status]_vars

\* -------------------------------------------------------------- statistics
\* (latest tick price - average cost) * volume, summed over the positions
RECURSIVE LivePnl(_)
LivePnl(S) ==
    IF S = {} THEN Zero
    ELSE LET s == CHOOSE x \in S : TRUE
             pos == positions[s]
             one == IF s \in DOMAIN ticks
                    THEN FracTimesInt(
                            FracAdd(FracOfInt(ticks[s]),
                                    [n |-> -pos.avg_price.n, d |-> pos.avg_price.d]),
                            pos.volume)
                    ELSE Zero
         IN  FracAdd(one, LivePnl(S \ {s}))

\* C24 (as claimed): get_statistics returns the balance, frozen, the number
\* of trades and the costs of the ledger as it is, and total_pnl = the sum
\* over the positions of (latest tick price - average cost) * volume; it
\* changes nothing of the ledger.
C24_StatisticsAreLive ==
    [][statistics' # NoStatistics
       => /\ statistics'.current_balance = balance
          /\ statistics'.frozen = frozen
          /\ statistics'.total_trades = total_trades
          /\ statistics'.total_commission = total_commission
          /\ statistics'.total_pnl = LivePnl(DOMAIN positions)
          /\ ledger_vars' = ledger_vars]_vars

\* what holds of it: the figures but total_pnl, and the ledger left alone
C24_StatisticsButPnl ==
    [][statistics' # NoStatistics
       => /\ statistics'.current_balance = balance
          /\ statistics'.frozen = frozen
          /\ statistics'.total_trades = total_trades
          /\ statistics'.total_commission = total_commission
          /\ ledger_vars' = ledger_vars]_vars


\* -------------------------------------------------------------- RuleEngine
\* The values of the entry conditions in the call that signal records.
ConditionsMet ==
    [i \in 1..Len(config.entry_rules) |->
        evaluate_condition(config.entry_rules[i], signal.indicator_values)]

\* the first k conditions combined strictly from the left: condition k joins
\* the result of the k - 1 before it with the combinator of condition k - 1
RECURSIVE LeftToRight(_)
LeftToRight(k) ==
    IF k = 1 THEN ConditionsMet[1]
    ELSE IF config.entry_rules[k - 1].logic = "and"
         THEN LeftToRight(k - 1) /\ ConditionsMet[k]
         ELSE LeftToRight(k - 1) \/ ConditionsMet[k]

\* C25: check_entry_signal combines the conditions strictly left to right,
\* condition i joining the result so far with the combinator that condition
\* i - 1 carries, without precedence of "and" over "or"; with no condition
\* the result is (False, 0.0).
C25_LeftToRight ==
    signal.call = "check_entry_signal" =>
        IF config.entry_rules = <<>>
        THEN ~signal.flag /\ signal.strength = Zero
        ELSE signal.flag = LeftToRight(Len(config.entry_rules))

\* "true or ... and false": false from the left, true under precedence
C25_Witness ==
    /\ signal.call = "check_entry_signal"
    /\ Len(config.entry_rules) = 3
    /\ config.entry_rules[1].logic = "or"
    /\ config.entry_rules[2].logic = "and"
    /\ ConditionsMet[1] /\ ~ConditionsMet[3]
    /\ ~signal.flag

\* the entry rules with other combinators
Recombined(logic) ==
    [i \in 1..Len(config.entry_rules) |->
        [config.entry_rules[i] EXCEPT !.logic = logic[i]]]

\* C26: the strength is the number of satisfied entry conditions over the
\* number of entry conditions, lies in [0, 1], and is the same whatever the
\* combinators and whatever the admit result.
C26_StrengthIsTheShareMet ==
    (signal.call = "check_entry_signal" /\ config.entry_rules # <<>>) =>
        LET total == Len(config.entry_rules)
            met == Cardinality({i \in 1..total : ConditionsMet[i]})
        IN  /\ signal.strength = Frac(met, total)
            /\ 0 <= signal.strength.n /\ signal.strength.n <= signal.strength.d
            /\ \A logic \in [1..total -> {"and", "or"}] :
                  check_entry_signal(Recombined(logic),
                                     signal.indicator_values).strength
                      = signal.strength

\* a signal that is not admitted with two of its three conditions met
C26_Witness ==
    /\ signal.call = "check_entry_signal"
    /\ ~signal.flag
    /\ signal.strength = Frac(2, 3)

KnownOperators ==
    {">", "gt", "<", "lt", ">=", "ge", "<=", "le", "==", "eq", "!=", "ne",
     "cross_above", "cross_below"}

\* the condition cannot be evaluated on these values
Unevaluable(rule, indicator_values) ==
    \/ rule.indicator \notin DOMAIN indicator_values
    \/ /\ rule.value.isstr
       /\ rule.value.str \notin DOMAIN indicator_values
       /\ rule.value.str \notin DOMAIN NumericStrings
    \/ rule.operator \in {"cross_above", "cross_below"}
    \/ rule.operator \notin KnownOperators

\* C27: a condition that cannot be evaluated (indicator absent, comparand
\* neither numeric nor a known indicator, a crossover operator, an unknown
\* operator) is false, and the other conditions of the same evaluation are
\* still evaluated and counted.
C27_UnevaluableIsFalse ==
    /\ \A i \in 1..Len(config.entry_rules) :
          Unevaluable(config.entry_rules[i], signal.indicator_values)
              => ~ConditionsMet[i]
    /\ \A i \in 1..Len(config.exit_rules) :
          Unevaluable(config.exit_rules[i], signal.indicator_values)
              => ~evaluate_condition(config.exit_rules[i], signal.indicator_values)
    /\ (signal.call = "check_entry_signal" /\ config.entry_rules # <<>>) =>
          LET total == Len(config.entry_rules)
              counted ==
                  {i \in 1..total :
                      /\ ~Unevaluable(config.entry_rules[i], signal.indicator_values)
                      /\ ConditionsMet[i]}
          IN  signal.strength = Frac(Cardinality(counted), total)

\* a crossover before a condition that is met, and counted
C27_Witness ==
    /\ signal.call = "check_entry_signal"
    /\ Len(config.entry_rules) = 2
    /\ config.entry_rules[1].operator = "cross_above"
    /\ config.entry_rules[1].indicator \in DOMAIN signal.indicator_values
    /\ signal.indicator_values[config.entry_rules[1].indicator]
          > config.entry_rules[1].value.num
    /\ ConditionsMet[2]
    /\ signal.strength = Frac(1, 2)

\* the exit rules on the call that signal records
TakeProfitMet ==
    /\ config.take_profit # 0 /\ signal.entry_price > 0
    /\ (signal.current_price - signal.entry_price) * PctDen
          >= config.take_profit * signal.entry_price
StopLossMet ==
    /\ config.stop_loss # 0 /\ signal.entry_price > 0
    /\ (signal.entry_price - signal.current_price) * PctDen
          >= config.stop_loss * signal.entry_price
HoldingDaysMet ==
    config.holding_days # 0 /\ signal.holding_days >= config.holding_days
ExitConditionsMet ==
    {i \in 1..Len(config.exit_rules) :
        /\ signal.indicator_values # <<>>
        /\ evaluate_condition(config.exit_rules[i], signal.indicator_values)}

\* C28: check_exit_signal looks at take-profit, stop-loss, the holding days
\* and then the declarative exit conditions, and returns the reason of the
\* first of them that is satisfied: a price at or over the take-profit
\* threshold exits for take-profit whatever the days and the conditions.
C28_ExitPriority ==
    signal.call = "check_exit_signal" =>
        /\ signal.flag = (\/ TakeProfitMet \/ StopLossMet \/ HoldingDaysMet
                          \/ ExitConditionsMet # {})
        /\ signal.reason.rule =
              (IF TakeProfitMet THEN "take_profit"
               ELSE IF StopLossMet THEN "stop_loss"
               ELSE IF HoldingDaysMet THEN "max_holding_days"
               ELSE IF ExitConditionsMet # {} THEN "condition"
               ELSE "")
        /\ signal.reason.rule = "condition" =>
              \E i \in ExitConditionsMet :
                 /\ \A j \in ExitConditionsMet : i <= j
                 /\ signal.reason.indicator = config.exit_rules[i].indicator

\* entry 10.00, take_profit 0.10, stop_loss 0.05, current 11.00, with the
\* holding days reached and an exit condition met as well
C28_Witness ==
    /\ signal.call = "check_exit_signal"
    /\ signal.entry_price = 1000 /\ signal.current_price = 1100
    /\ config.take_profit = 10 /\ config.stop_loss = 5
    /\ HoldingDaysMet /\ ExitConditionsMet # {}
    /\ signal.reason.rule = "take_profit"


\* ------------------------------------------------------------- RiskManager
\* C29: the peak portfolio value never decreases over apply_filters,
\* check_order, reset_daily and update_pnl, and after a tracking update the
\* drawdown is (peak - current) / peak (0 while no positive value has been
\* seen) and is not negative.
C29_PeakNeverDecreases ==
    /\ [][peak_portfolio_value' >= peak_portfolio_value]_vars
    /\ [](/\ 0 <= current_drawdown.n
          /\ (risk_ret.call = "apply_filters" /\ risk_ret.signals # <<>>) =>
                /\ peak_portfolio_value >= risk_ret.portfolio_value
                /\ current_drawdown =
                      (IF peak_portfolio_value > 0
                       THEN Frac(peak_portfolio_value - risk_ret.portfolio_value,
                                 peak_portfolio_value)
                       ELSE Zero))

\* a value of 95,000 tracked under a peak of 120,000, in a day that was
\* started with reset_daily
C29_Witness ==
    /\ risk_ret.call = "apply_filters" /\ risk_ret.signals # <<>>
    /\ risk_ret.portfolio_value = 95000
    /\ peak_portfolio_value = 120000
    /\ current_drawdown = Frac(25, 120)
    /\ daily_start_value > 0

\* C30: whenever the drawdown of the supplied portfolio value under the
\* tracked peak is over max_drawdown, apply_filters returns no signal,
\* whatever the candidate signals and the current positions.
C30_DrawdownGate ==
    (/\ risk_ret.call = "apply_filters"
     /\ peak_portfolio_value > 0
     /\ (peak_portfolio_value - risk_ret.portfolio_value) * PctDen
           > MaxDrawdownPct * peak_portfolio_value)
        => risk_ret.out = <<>>

\* peak 120,000, current 95,000, limit 0.15, with candidates and a position
C30_Witness ==
    /\ risk_ret.call = "apply_filters"
    /\ Len(risk_ret.signals) = 3
    /\ CurrentCount(risk_ret.current_positions) > 0
    /\ peak_portfolio_value = 120000 /\ risk_ret.portfolio_value = 95000
    /\ risk_ret.out = <<>>


\* the call of apply_filters that risk_ret records
Filtered == risk_ret.call = "apply_filters"
OpenSymbols ==
    {s \in DOMAIN risk_ret.current_positions : risk_ret.current_positions[s] # 0}
FreeSlots == MaxPositions - CurrentCount(risk_ret.current_positions)
Blocked == risk_ret.signals # <<>> /\ DrawdownExceeded(Risk)

\* C31 (as claimed): trading not blocked and the open positions at
\* max_positions, apply_filters returns exactly the candidates on held
\* symbols, in their order: none on a symbol that is not held.
C31_HeldSymbolsOnly ==
    (Filtered /\ ~Blocked /\ FreeSlots <= 0) =>
        risk_ret.out = SelectSeq(risk_ret.signals, LAMBDA s : s \in OpenSymbols)

\* what holds of it: the candidates on the symbols the dict lists, held or
\* closed
C31_ListedSymbolsOnly ==
    (Filtered /\ ~Blocked /\ FreeSlots <= 0) =>
        risk_ret.out = SelectSeq(risk_ret.signals,
                           LAMBDA s : s \in DOMAIN risk_ret.current_positions)

\* C32: trading not blocked and free slots left, apply_filters returns the
\* first min(candidates, free slots) candidates in the caller's order.
C32_PrefixOfFreeSlots ==
    (Filtered /\ ~Blocked /\ FreeSlots > 0) =>
        /\ Len(risk_ret.out) = Min(Len(risk_ret.signals), FreeSlots)
        /\ \A i \in 1..Len(risk_ret.out) : risk_ret.out[i] = risk_ret.signals[i]

\* three candidates for one free slot
C32_Witness ==
    /\ Filtered /\ ~Blocked
    /\ FreeSlots = 1
    /\ Len(risk_ret.signals) = 3
    /\ risk_ret.out = <<risk_ret.signals[1]>>

\* C33 (as claimed): every call of apply_filters updates the tracking from
\* the portfolio value, whatever the candidates: afterwards the peak is at
\* least that value and the drawdown is the one of that value.
C33_EveryCallTracks ==
    Filtered =>
        /\ peak_portfolio_value >= risk_ret.portfolio_value
        /\ current_drawdown =
              (IF peak_portfolio_value > 0
               THEN Frac(peak_portfolio_value - risk_ret.portfolio_value,
                         peak_portfolio_value)
               ELSE Zero)

\* what holds of it: the calls with a candidate
C33_CallsWithCandidatesTrack ==
    (Filtered /\ risk_ret.signals # <<>>) =>
        /\ peak_portfolio_value >= risk_ret.portfolio_value
        /\ current_drawdown =
              (IF peak_portfolio_value > 0
               THEN Frac(peak_portfolio_value - risk_ret.portfolio_value,
                         peak_portfolio_value)
               ELSE Zero)

\* C40 (as claimed): the open positions plus the returned signals on
\* symbols that are not open never exceed max_positions.
C40_PositionCeiling ==
    Filtered =>
        CurrentCount(risk_ret.current_positions)
          + Cardinality({risk_ret.out[i] : i \in 1..Len(risk_ret.out)} \ OpenSymbols)
            <= MaxPositions

\* what holds of it: the calls that found a free slot
C40_CeilingWithFreeSlots ==
    (Filtered /\ FreeSlots > 0) =>
        CurrentCount(risk_ret.current_positions)
          + Cardinality({risk_ret.out[i] : i \in 1..Len(risk_ret.out)} \ OpenSymbols)
            <= MaxPositions


\* the call of calculate_position_size that risk_ret records
NominalSize == Frac(risk_ret.portfolio_value * PositionSizePct, PctDen)
FloorSize == FracOfInt(risk_ret.price * MinShares)
ScaledSize ==
    IF risk_ret.volatility > 0
    THEN Frac(NominalSize.n * Min(risk_ret.volatility, ReferenceVolatility),
              NominalSize.d * risk_ret.volatility)
    ELSE NominalSize

\* C34: calculate_position_size returns portfolio_value x position_size,
\* times min(1, 0.02 / volatility) for a positive volatility, and not less
\* than price x 100: the result is at least price x 100 and, where the floor
\* does not apply, at most portfolio_value x position_size.
C34_PositionSize ==
    risk_ret.call = "calculate_position_size" =>
        /\ risk_ret.size =
              (IF FracLeq(FloorSize, ScaledSize) THEN ScaledSize ELSE FloorSize)
        /\ FracLeq(ScaledSize, NominalSize)
        /\ FracLeq(FloorSize, risk_ret.size)
        /\ risk_ret.size # FloorSize => FracLeq(risk_ret.size, NominalSize)

\* 120,000 x 0.03 halved by a volatility of 4 %, over the floor of 1,000
C34_Witness ==
    /\ risk_ret.call = "calculate_position_size"
    /\ risk_ret.volatility > ReferenceVolatility
    /\ risk_ret.size = FracOfInt(1800)
    /\ ~FracLeq(risk_ret.size, FloorSize)
    /\ ~FracLeq(NominalSize, risk_ret.size)


\* the gates of check_order on the call that risk_ret records
DailyLossGate ==
    daily_pnl * PctDen < -DailyLossLimitPct * risk_ret.portfolio_value
DrawdownGate ==
    current_drawdown.n * PctDen > MaxDrawdownPct * current_drawdown.d
PositionCountGate ==
    /\ risk_ret.symbol \notin DOMAIN risk_ret.current_positions
    /\ Cardinality(OpenSymbols) >= MaxPositions
\* notional > 1.5 x portfolio_value x position_size
NotionalGate ==
    risk_ret.volume * risk_ret.price * 2 * PctDen
        > 3 * risk_ret.portfolio_value * PositionSizePct

\* C35: check_order rejects with the reason of the first violated gate, in
\* the order daily loss, drawdown, position count (buys of a symbol not in
\* the positions), notional (buys); it allows the order exactly when no gate
\* is violated, and it leaves the tracking state as it was.
C35_FirstViolatedGate ==
    /\ [](risk_ret.call = "check_order" =>
            LET buy == risk_ret.direction = "buy"
            IN  /\ risk_ret.reason =
                      (IF DailyLossGate THEN "Daily loss limit exceeded"
                       ELSE IF DrawdownGate THEN "Maximum drawdown exceeded"
                       ELSE IF buy /\ PositionCountGate
                            THEN "Maximum positions reached"
                       ELSE IF buy /\ NotionalGate THEN "Position size too large"
                       ELSE "")
                /\ risk_ret.allowed =
                      ~(\/ DailyLossGate \/ DrawdownGate
                        \/ buy /\ (PositionCountGate \/ NotionalGate))
                /\ risk_ret.allowed = (risk_ret.reason = ""))
    /\ [][risk_ret'.call = "check_order" =>
            UNCHANGED <<peak_portfolio_value, daily_start_value,
                        current_drawdown, daily_pnl>>]_vars

\* a buy over the notional cap, of a new symbol at the position ceiling, in
\* a drawdown over the limit, rejected for the daily loss
C35_Witness ==
    /\ risk_ret.call = "check_order"
    /\ risk_ret.direction = "buy"
    /\ DailyLossGate /\ DrawdownGate /\ PositionCountGate /\ NotionalGate
    /\ risk_ret.reason = "Daily loss limit exceeded"
    /\ ~risk_ret.allowed

\* a sale at the position ceiling and over the notional cap, allowed
C35_SellWitness ==
    /\ risk_ret.call = "check_order"
    /\ risk_ret.direction = "sell"
    /\ NotionalGate /\ Cardinality(OpenSymbols) >= MaxPositions
    /\ risk_ret.allowed


\* ------------------------------------------------------------------ reset
\* reset and the call beside it have returned
ResetReturned == Joined /\ \E t \in Callers : running[t].op = "reset"
\* the call beside it submitted no order
NoOrderBeside == \A t \in Callers : running[t].op # "send_order"

\* C36 (as claimed): reset restores the initial state also beside a
\* send_order, cancel_order or update_tick: when the calls have returned no
\* position, frozen amount, active order or trade count is left of an order
\* submitted before the reset, and balance + frozen + position cost is the
\* initial capital (no cost being charged after the reset).
C36_ResetRestores ==
    ResetReturned =>
        /\ NoOrderBeside =>
              /\ \A s \in DOMAIN positions : positions[s].volume = 0
              /\ frozen = 0
              /\ active_orders = NewLedger.active_orders
              /\ trade_count = 0
        /\ Conserved(Ledger) = FracOfInt(initial_capital)

\* what holds of it: the order maps are cleared
C36_OrderMapsCleared ==
    (ResetReturned /\ NoOrderBeside) =>
        orders = NewLedger.orders /\ active_orders = NewLedger.active_orders


\* ------------------------------------------------------------ resting sales
\* the volume traded by the orders of a direction on a symbol
RECURSIVE TradedVolume(_, _, _)
TradedVolume(ids, symbol, direction) ==
    IF ids = {} THEN 0
    ELSE LET i == CHOOSE x \in ids : TRUE
         IN  (IF orders[i].symbol = symbol /\ orders[i].direction = direction
              THEN orders[i].traded ELSE 0)
             + TradedVolume(ids \ {i}, symbol, direction)

\* C37 (as claimed): on no symbol does the volume sold in trades exceed the
\* volume bought in trades, also with several sell orders resting at once.
C37_NoOverselling ==
    \A s \in VtSymbols :
        TradedVolume(DOMAIN orders, s, "SHORT")
            <= TradedVolume(DOMAIN orders, s, "LONG")

\* what holds of it: no sale is accepted for more than the position holds
\* when it is submitted
C37_SaleWithinPositionAtSubmission ==
    \A req \in SellRequests :
        (req.direction = "SHORT" /\ send_order(Ledger, req).ret.orderid # 0)
            => /\ req.symbol \in DOMAIN positions
               /\ req.volume <= positions[req.symbol].volume


\* -------------------------------------------------------------- order maps
\* C38 (as claimed): in every reachable state the active orders are among
\* the stored orders, every active order is NOTTRADED or PARTTRADED, and
\* every stored order that is not active is ALLTRADED or CANCELLED.
C38_OrderMapsConsistent ==
    /\ SeqRange(active_orders) \subseteq DOMAIN orders
    /\ \A i \in DOMAIN orders :
          IF i \in SeqRange(active_orders)
          THEN orders[i].status \in {"NOTTRADED", "PARTTRADED"}
          ELSE orders[i].status \in {"ALLTRADED", "CANCELLED"}

\* C39: every fill is complete: a settlement trades the whole volume of the
\* order in one trade, the order goes from NOTTRADED to ALLTRADED, and no
\* order is ever PARTTRADED.
C39_EveryFillIsComplete ==
    /\ [](\A i \in DOMAIN orders :
            /\ orders[i].status # "PARTTRADED"
            /\ orders[i].traded \in {0, orders[i].volume})
    /\ [][\A i \in DOMAIN orders \cap DOMAIN orders' :
            orders'[i].traded # orders[i].traded =>
                /\ orders[i].status = "NOTTRADED" /\ orders[i].traded = 0
                /\ orders'[i].status = "ALLTRADED"
                /\ Cardinality({k \in 1..Len(ret'.trades) :
                                  ret'.trades[k].orderid = i}) = 1
                /\ \A k \in 1..Len(ret'.trades) :
                      ret'.trades[k].orderid = i
                          => ret'.trades[k].volume = orders[i].volume]_vars

\* a tick has settled two resting orders, each in full
C39_Witness ==
    /\ Len(ret.trades) = 2
    /\ \A k \in 1..2 :
          /\ ret.trades[k].orderid \in DOMAIN orders
          /\ orders[ret.trades[k].orderid].status = "ALLTRADED"
          /\ orders[ret.trades[k].orderid].traded = ret.trades[k].volume

====
